---- MODULE Spec2Model ----
(***************************************************************************)
(* VibeSwipe front end: the delegated-authorization callback, the request  *)
(* gateway `api` with its wrappers, the home page's profile fetch, the      *)
(* swipe deck's card flow and the two generation wizards, as state         *)
(* machines translated from the sources.                                   *)
(***************************************************************************)
EXTENDS Integers, Sequences, FiniteSets, TLC

VARIABLES
    \* ---- browser storage and root view ----
    token,            \* localStorage["token"]; Null when the key is absent
    sessionRedirect,  \* sessionStorage["spotify_redirect_uri"]; Null when absent
    isLoggedIn,       \* App.tsx: const isLoggedIn, read once per page load
    page,             \* which view the browser shows
    \* ---- CallbackPage ----
    beginAddr,        \* return address the running handshake was begun with
    searchCode,       \* searchParams.get("code")
    searchError,      \* searchParams.get("error")
    calledRef,        \* calledRef.current
    cbError,          \* useState error of CallbackPage
    exchanges,        \* POST /auth/callback calls of this mount, in issue order
    effectRuns,       \* how often the completion effect ran for this mount
    \* ---- gateway callers ----
    gwCall,           \* the api call in flight (NoCall when none)
    gwLast,           \* the last settled api call
    gwPrev,           \* the settled api call before it
    homeReq,          \* HomePage: the GET /me call of its effect
    user,             \* HomePage: useState user
    \* ---- SwipeDeckPage (playlist-scoped and fixed-deck variants) ----
    variant,          \* which of the two SwipeDeckPage sources is running
    mounted,          \* the page component is mounted
    phase,            \* useState phase
    loading,          \* useState loading (fixed-deck variant)
    playlists,        \* useState playlists
    playlistsLoading, \* useState playlistsLoading
    selectedPlaylist, \* useState selectedPlaylist (Null before the first pick)
    deck,             \* useState deck: the track ids, in order
    currentIndex,     \* useState currentIndex (0-based, as in the source)
    swError,          \* useState error
    savedCount,       \* useState savedCount
    skippedCount,     \* useState skippedCount
    loads,            \* getSwipeDeck calls in flight, with what their caller captured
    saves,            \* saveTrack calls in flight, each with its advanceCard closure
    timers,           \* setTimeout callbacks of handleDragEnd not yet run
    deckNo,           \* history: how many decks setDeck has installed
    decisions,        \* history: decisions processed per index of the installed deck
    saveReqs,         \* history: saveTrack calls issued per index of the installed deck
    lastLoad,         \* history: what the last settled getSwipeDeck call gave
    deckSource,       \* history: the playlist the installed deck was fetched for
    \* ---- DailyDrivePage / GymPlaylistPage (the generation wizards) ----
    wizard,           \* which of the two wizard pages is running
    wzMounted,        \* the page component is mounted
    wzInst,           \* history: how many times the page has been mounted
    step,             \* useState step
    generatingStep,   \* useState generatingStep
    wzSources,        \* useState shows / playlists: the ids listed
    loadingSources,   \* useState loadingShows / loadingPlaylists
    selectedIds,      \* useState selectedShowIds / selectedIds
    autoRefresh,      \* useState autoRefresh (Gym)
    wzError,          \* useState error
    result,           \* useState result (Null, or the data of the response)
    wzCalls,          \* api calls of the wizard pages in flight
    wzLast,           \* history: what the last settled generate call gave its caller
    srvAutoRefresh,   \* the auto_refresh flag the backend holds for the user
    \* ---- DiscoverPage (both variants) and RegisterPage ----
    formPage,         \* which page is mounted: "discover", "likes" (the like/dismiss
                      \* variant), "register", or "none"
    prompt,           \* DiscoverPage: useState prompt, as a sequence of characters
    dsLoading,        \* DiscoverPage: useState loading
    dsError,          \* DiscoverPage: useState error
    dsResult,         \* DiscoverPage: useState result: <<>> for null, else <<songs>>,
                      \* the songs given by their spotify_uri
    dsCall,           \* DiscoverPage: the POST /discover in flight (NoCall when none)
    dsLast,           \* history: the last submit of the discover form
    dsSelectedPlaylist,   \* DiscoverPage: useState selectedPlaylist (Null when none)
    contextSongs,         \* DiscoverPage: useState contextSongs
    loadingPlaylistTracks,\* DiscoverPage: useState loadingPlaylistTracks
    dsTracksCalls,        \* DiscoverPage: GET /playlist-tracks calls in flight, by playlist
    savedSongs,           \* DiscoverPage: useState savedSongs (0-based indices)
    savingAll,            \* DiscoverPage: useState savingAll
    saveAllResult,        \* DiscoverPage: useState saveAllResult
    dsSaveCall,           \* DiscoverPage: the POST /save-tracks in flight, with its closure
    liked,                \* DiscoverPage (like/dismiss variant): useState liked
    dismissed,            \* DiscoverPage (like/dismiss variant): useState dismissed
    creatingPlaylist,     \* DiscoverPage (like/dismiss variant): useState creatingPlaylist
    playlistResult,       \* DiscoverPage (like/dismiss variant): useState playlistResult
    dsPlaylistCall,       \* DiscoverPage (like/dismiss variant): the POST /create-playlist in flight
    password,         \* RegisterPage: useState password
    confirmPassword,  \* RegisterPage: useState confirmPassword
    rgLoading,        \* RegisterPage: useState loading
    rgError,          \* RegisterPage: useState error
    rgCall,           \* RegisterPage: the POST /register in flight (NoCall when none)
    rgLast,           \* history: the last submit of the register form
    \* ---- GymPlaylistPage, the create-button variant ----
    crMounted,        \* the page component is mounted
    crInst,           \* history: how many times the page has been mounted
    crPlaylists,      \* useState playlists: the ids listed
    selectedPlaylists,\* useState selectedPlaylists
    crLoading,        \* useState loading
    crResult,         \* useState result
    crCalls,          \* getUserPlaylists / createGymPlaylist calls in flight
    unhandled,        \* rejections of promises that have no rejection handler
    \* ---- two tabs of one browser profile ----
    tabPage,          \* per tab: the view it shows
    tabLoggedIn,      \* per tab: App's isLoggedIn, read when the tab loaded
    tabCred,          \* history, per tab: the token the tab logged in or loaded with
    tabSent           \* history, per tab: the token its last wrapper call attached

storageVars  == <<token, sessionRedirect, isLoggedIn, page>>
callbackVars == <<beginAddr, searchCode, searchError, calledRef, cbError,
                  exchanges, effectRuns>>
gatewayVars  == <<gwCall, gwLast, gwPrev, homeReq, user>>
swipeVars    == <<variant, mounted, phase, loading, playlists, playlistsLoading,
                  selectedPlaylist, deck, currentIndex, swError,
                  savedCount, skippedCount, loads, saves, timers, deckNo, decisions,
                  saveReqs, lastLoad, deckSource>>
wizardVars   == <<wizard, wzMounted, wzInst, step, generatingStep, wzSources,
                  loadingSources, selectedIds, autoRefresh, wzError, result,
                  wzCalls, wzLast, srvAutoRefresh>>
formVars     == <<formPage, prompt, dsLoading, dsError, dsResult, dsCall, dsLast,
                  dsSelectedPlaylist, contextSongs, loadingPlaylistTracks,
                  dsTracksCalls, savedSongs, savingAll, saveAllResult, dsSaveCall,
                  liked, dismissed, creatingPlaylist, playlistResult, dsPlaylistCall,
                  password, confirmPassword, rgLoading, rgError, rgCall, rgLast>>
createVars   == <<crMounted, crInst, crPlaylists, selectedPlaylists, crLoading,
                  crResult, crCalls, unhandled>>
tabVars      == <<tabPage, tabLoggedIn, tabCred, tabSent>>
vars == <<storageVars, callbackVars, gatewayVars, swipeVars, wizardVars, formVars,
          createVars, tabVars>>

----------------------------------------------------------------------------
(* JavaScript values.  undefined and null are kept apart from every string; *)
(* a value is truthy unless it is undefined, null or the empty string.      *)

Undefined == "<undefined>"
Null      == "<null>"

Truthy(v) == v \notin {Undefined, Null, ""}

\* a || b
OrElse(a, b) == IF Truthy(a) THEN a ELSE b

\* Storage.setItem stores String(value).
StorageString(v) == IF v = Undefined THEN "undefined"
                    ELSE IF v = Null THEN "null" ELSE v

----------------------------------------------------------------------------
(* The network as the gateway sees it: fetch either rejects (transport     *)
(* failure) or resolves with a status and a body.  A body is unparsable,   *)
(* the JSON value null, or a JSON object of which the fields detail and    *)
(* access_token matter (Undefined when the object lacks the field).        *)

Statuses == {200, 401, 500}

Details == {Undefined, "", "Invalid authorization code"}

AccessTokens == {Undefined, "jwt1"}

Unparsable == [json |-> "unparsable", detail |-> Undefined, access_token |-> Undefined]
JsonNull   == [json |-> "null", detail |-> Undefined, access_token |-> Undefined]
JsonObjects ==
    { [json |-> "object", detail |-> d, access_token |-> Undefined] : d \in Details }
    \cup { [json |-> "object", detail |-> Undefined, access_token |-> t] :
              t \in AccessTokens }
Bodies == {Unparsable, JsonNull} \cup JsonObjects

NetworkFailure == [kind |-> "network", status |-> 0, body |-> Unparsable]
Responses == {NetworkFailure} \cup
             { [kind |-> "http", status |-> s, body |-> b] : s \in Statuses, b \in Bodies }

\* Response.ok
ResOk(resp) == resp.status >= 200 /\ resp.status <= 299

----------------------------------------------------------------------------
(* api(endpoint, {method, body, token})                                     *)

ContentTypeOnly == [h \in {"Content-Type"} |-> "application/json"]

ApiHeadersAlways(tok) ==
    IF tok # Undefined
    THEN [h \in {"Content-Type", "Authorization"} |->
            IF h = "Authorization" THEN "Bearer " \o tok ELSE "application/json"]
    ELSE ContentTypeOnly

\* headers: Content-Type always, Authorization only under `if (token)`.
ApiHeaders(tok) ==
    IF Truthy(tok)
    THEN [h \in {"Content-Type", "Authorization"} |->
            IF h = "Authorization" THEN "Bearer " \o tok ELSE "application/json"]
    ELSE ContentTypeOnly

\* The one fetch of a call.
ApiRequest(endpoint, method, body, tok) ==
    [endpoint |-> endpoint, method |-> method, headers |-> ApiHeaders(tok),
     body |-> body]

JsError(name, message) == [name |-> name, message |-> message]

Returned(v) == [ok |-> TRUE, value |-> v, error |-> JsError("", "")]
Thrown(e)   == [ok |-> FALSE, value |-> Unparsable, error |-> e]

\* `HTTP ${res.status}`
HttpMessage(status) == "HTTP " \o ToString(status)

\* What the promise of api settles to, given what fetch did.
ApiSettle(resp) ==
    IF resp.kind = "network"
    THEN Thrown(JsError("TypeError", "Failed to fetch"))
    ELSE IF ~ResOk(resp)
    THEN \* res.json().catch(() => ({ detail: "Unknown error" }))
         IF resp.body.json = "unparsable"
         THEN Thrown(JsError("Error", "Unknown error"))
         ELSE IF resp.body.json = "null"
         THEN Thrown(JsError("TypeError", "Cannot read properties of null"))
         ELSE Thrown(JsError("Error", OrElse(resp.body.detail, HttpMessage(resp.status))))
    ELSE \* return res.json()
         IF resp.body.json = "unparsable"
         THEN Thrown(JsError("SyntaxError", "Unexpected token"))
         ELSE Returned(resp.body)

CatchMessageFallback(err, fallback) == fallback

\* err instanceof Error ? err.message : fallback   (every error above is an Error)
CatchMessage(err, fallback) == err.message

----------------------------------------------------------------------------
(* Bounds and input domains.                                               *)

MaxEffectRuns == 3

Origin == "https://app"

SearchCodes  == {Null, "", "abc123"}
SearchErrors == {Null, "", "access_denied"}

StoredTokens == {Null, "jwt0"}

\* JSON.stringify(body) is injective and no property reads the text: a request
\* keeps its body as <<>> (undefined) or <<object>>.
NoBody == <<>>
SomeBody(obj) == <<obj>>

----------------------------------------------------------------------------
(* CallbackPage                                                            *)

ConsentDeniedMessage == "Spotify login was cancelled."
MissingCodeMessage   == "No authorization code received."

LatchNever(ref) == FALSE

\* if (calledRef.current) return;
LatchBlocks(ref) == ref

CallbackBranchCodeFirst(code, err) ==
    IF ~Truthy(code) THEN "missing"
    ELSE "exchange"

CallbackBranchNoCodeCheck(code, err) ==
    IF Truthy(err) THEN "denied"
    ELSE "exchange"

\* The two early returns of the effect, in source order.
CallbackBranch(code, err) ==
    IF Truthy(err) THEN "denied"
    ELSE IF ~Truthy(code) THEN "missing"
    ELSE "exchange"

RedirectUriOriginOnly(stored) == Origin \o "/callback"

\* sessionStorage.getItem("spotify_redirect_uri") || `${origin}/callback`
RedirectUri(stored) == OrElse(stored, Origin \o "/callback")

ExchangeRequest(code, stored) ==
    ApiRequest("/auth/callback", "POST",
               SomeBody([code |-> code, redirect_uri |-> RedirectUri(stored)]),
               Undefined)

\* begin(return_address): asks the backend for the provider URL for `addr`,
\* records the same address in sessionStorage and leaves for the provider.
Begin(addr) ==
    /\ page = "login"
    /\ beginAddr' = addr
    /\ sessionRedirect' = addr
    /\ page' = "provider"
    /\ UNCHANGED <<token, isLoggedIn, searchCode, searchError, calledRef, cbError,
                   exchanges, effectRuns>>
    /\ UNCHANGED gatewayVars
    /\ UNCHANGED <<swipeVars, wizardVars, formVars, createVars, tabVars>>

\* A page load of /callback?code=..&error=..: App renders, CallbackPage mounts.
MountCallback(code, err) ==
    /\ isLoggedIn' = Truthy(token)
    /\ page' = "callback"
    /\ searchCode' = code
    /\ searchError' = err
    /\ calledRef' = FALSE
    /\ cbError' = ""
    /\ exchanges' = <<>>
    /\ effectRuns' = 0
    /\ UNCHANGED <<token, sessionRedirect, beginAddr>>
    /\ UNCHANGED gatewayVars
    /\ UNCHANGED <<swipeVars, wizardVars, formVars, createVars, tabVars>>

\* The provider redirects back to the return address.
ProviderRedirect(code, err) ==
    /\ page = "provider"
    /\ MountCallback(code, err)

\* The /callback route is opened without a handshake in progress.
DirectVisit(code, err) ==
    /\ page \in {"login", "home"}
    /\ MountCallback(code, err)

\* One run of the completion effect (mount, StrictMode re-run, re-render).
CallbackEffect ==
    /\ page = "callback"
    /\ effectRuns < MaxEffectRuns
    /\ effectRuns' = effectRuns + 1
    /\ IF LatchBlocks(calledRef)
       THEN UNCHANGED <<calledRef, cbError, exchanges>>
       ELSE /\ calledRef' = TRUE
            /\ LET branch == CallbackBranch(searchCode, searchError) IN
               CASE branch = "denied" ->
                        /\ cbError' = ConsentDeniedMessage
                        /\ UNCHANGED exchanges
                 [] branch = "missing" ->
                        /\ cbError' = MissingCodeMessage
                        /\ UNCHANGED exchanges
                 [] OTHER ->
                        /\ exchanges' = Append(exchanges,
                              [req |-> ExchangeRequest(searchCode, sessionRedirect),
                               st |-> "inflight"])
                        /\ UNCHANGED cbError
    /\ UNCHANGED <<token, sessionRedirect, isLoggedIn, page, beginAddr,
                   searchCode, searchError>>
    /\ UNCHANGED gatewayVars
    /\ UNCHANGED <<swipeVars, wizardVars, formVars, createVars, tabVars>>

\* .then(data => { localStorage.setItem("token", data.access_token);
\*                 window.location.replace("/") })
\* .catch(err => setError(...)); a throw inside .then lands in .catch too.
ExchangeSettle(i, resp) ==
    /\ page = "callback"
    /\ i \in DOMAIN exchanges
    /\ exchanges[i].st = "inflight"
    /\ LET out == ApiSettle(resp) IN
       IF out.ok /\ out.value.json = "object"
       THEN /\ token' = StorageString(out.value.access_token)
            /\ isLoggedIn' = Truthy(token')
            /\ page' = IF isLoggedIn' THEN "home" ELSE "login"
            /\ exchanges' = [exchanges EXCEPT ![i].st = "ok"]
            /\ UNCHANGED cbError
       ELSE /\ cbError' = IF out.ok
                          THEN "Cannot read properties of null"
                          ELSE CatchMessage(out.error, "Login failed")
            /\ exchanges' = [exchanges EXCEPT ![i].st = "failed"]
            /\ UNCHANGED <<token, isLoggedIn, page>>
    /\ UNCHANGED <<sessionRedirect, beginAddr, searchCode, searchError, calledRef,
                   effectRuns>>
    /\ UNCHANGED gatewayVars
    /\ UNCHANGED <<swipeVars, wizardVars, formVars, createVars, tabVars>>

\* {error ? ... <button onClick={() => navigate("/login")}>Back to Login}
RetryOffered == page = "callback" /\ Truthy(cbError)

\* navigate("/login"); the /login route shows LoginPage unless isLoggedIn.
BackToLogin ==
    /\ RetryOffered
    /\ page' = IF isLoggedIn THEN "home" ELSE "login"
    /\ UNCHANGED <<token, sessionRedirect, isLoggedIn>>
    /\ UNCHANGED callbackVars
    /\ UNCHANGED <<swipeVars, wizardVars, formVars, createVars, tabVars>>
    /\ UNCHANGED gatewayVars
    /\ UNCHANGED <<swipeVars, wizardVars, formVars, createVars, tabVars>>

NoCall == [fn |-> "none", st |-> "none"]

MaxDeck == 2

NoDecisions == [i \in 0..(MaxDeck - 1) |-> 0]

\* No getSwipeDeck call has settled yet.
NoLoad == [ok |-> FALSE, n |-> 0, message |-> ""]

\* The swipe page is not open.
SwipeIdle ==
    /\ variant = "playlist"
    /\ mounted = FALSE
    /\ phase = "pick-playlist"
    /\ loading = FALSE
    /\ playlists = <<>>
    /\ playlistsLoading = TRUE
    /\ selectedPlaylist = Null
    /\ deck = <<>>
    /\ currentIndex = 0
    /\ swError = ""
    /\ savedCount = 0
    /\ skippedCount = 0
    /\ loads = <<>>
    /\ saves = <<>>
    /\ timers = <<>>
    /\ deckNo = 0
    /\ decisions = NoDecisions
    /\ saveReqs = NoDecisions
    /\ lastLoad = NoLoad
    /\ deckSource = Null

\* No generate call has settled yet.
NoOutcome ==
    [ok |-> TRUE,
     value |-> [json |-> "none", detail |-> "<undefined>", access_token |-> "<undefined>"],
     error |-> [name |-> "", message |-> ""]]

\* No wizard page is open.
WizardIdle ==
    /\ wizard = "daily"
    /\ wzMounted = FALSE
    /\ wzInst = 0
    /\ step = "select"
    /\ generatingStep = 0
    /\ wzSources = {}
    /\ loadingSources = TRUE
    /\ selectedIds = {}
    /\ autoRefresh = FALSE
    /\ wzError = ""
    /\ result = Null
    /\ wzCalls = <<>>
    /\ wzLast = NoOutcome
    /\ srvAutoRefresh = FALSE

\* A submit that has not happened.
NoSubmit == [kind |-> "none", sent |-> FALSE]

\* Neither form page is open.
FormIdle ==
    /\ formPage = "none"
    /\ prompt = <<>>
    /\ dsLoading = FALSE
    /\ dsError = ""
    /\ dsResult = <<>>
    /\ dsCall = NoCall
    /\ dsLast = NoSubmit
    /\ dsSelectedPlaylist = Null
    /\ contextSongs = <<>>
    /\ loadingPlaylistTracks = FALSE
    /\ dsTracksCalls = <<>>
    /\ savedSongs = {}
    /\ savingAll = FALSE
    /\ saveAllResult = Null
    /\ dsSaveCall = NoCall
    /\ liked = {}
    /\ dismissed = {}
    /\ creatingPlaylist = FALSE
    /\ playlistResult = Null
    /\ dsPlaylistCall = NoCall
    /\ password = ""
    /\ confirmPassword = ""
    /\ rgLoading = FALSE
    /\ rgError = ""
    /\ rgCall = NoCall
    /\ rgLast = NoSubmit

\* The create-button page is not open and no promise has been rejected.
CreateIdle ==
    /\ crMounted = FALSE /\ crInst = 0 /\ crPlaylists = {} /\ selectedPlaylists = {}
    /\ crLoading = FALSE /\ crResult = Null /\ crCalls = <<>> /\ unhandled = <<>>

Tabs == {1, 2}

\* Only the one browser window of the other sections is open.
TabsIdle ==
    /\ tabPage = [t \in Tabs |-> "closed"]
    /\ tabLoggedIn = [t \in Tabs |-> FALSE]
    /\ tabCred = [t \in Tabs |-> Null]
    /\ tabSent = [t \in Tabs |-> "none"]

GatewayIdle ==
    /\ gwCall = NoCall
    /\ gwLast = NoCall
    /\ gwPrev = NoCall
    /\ homeReq = NoCall
    /\ user = Null

CallbackInit ==
    /\ token \in StoredTokens
    /\ sessionRedirect = Null
    /\ isLoggedIn = Truthy(token)
    /\ page = IF isLoggedIn THEN "home" ELSE "login"
    /\ beginAddr = Null
    /\ searchCode = Null
    /\ searchError = Null
    /\ calledRef = FALSE
    /\ cbError = ""
    /\ exchanges = <<>>
    /\ effectRuns = 0
    /\ GatewayIdle
    /\ SwipeIdle
    /\ WizardIdle
    /\ FormIdle
    /\ CreateIdle
    /\ TabsIdle

CallbackNext ==
    \/ \E a \in {"https://app/callback", "http://127.0.0.1:5173/callback"} : Begin(a)
    \/ \E c \in SearchCodes, e \in SearchErrors : ProviderRedirect(c, e)
    \/ \E c \in SearchCodes, e \in SearchErrors : DirectVisit(c, e)
    \/ CallbackEffect
    \/ \E i \in 1..MaxEffectRuns, r \in Responses : ExchangeSettle(i, r)
    \/ BackToLogin

SpecCallback == CallbackInit /\ [][CallbackNext]_vars

----------------------------------------------------------------------------
(* Gateway callers: the wrappers of lib/api, LoginPage and HomePage.       *)

TrackIds    == {"T1"}

\* const token = localStorage.getItem("token") || "";
WrapperToken == OrElse(token, "")

\* Playlist ids are alphanumeric, which encodeURIComponent leaves as they are.
WrapperRequest(fn, pid, tid) ==
    CASE fn = "getUserPlaylists" ->
            ApiRequest("/my-playlists", "GET", NoBody, WrapperToken)
      [] fn = "getSwipeDeck" ->
            ApiRequest("/discover/swipe?playlist_id=" \o pid, "GET", NoBody,
                       WrapperToken)
      [] fn = "saveTrack" ->
            ApiRequest("/library/save?playlist_id=" \o pid, "POST",
                       SomeBody([track_ids |-> <<tid>>]), WrapperToken)
      [] OTHER ->
            ApiRequest("/vibe-roast", "GET", NoBody, WrapperToken)

\* A running call of api: its caller, the token it was given, its one fetch.
InFlight(fn, tok, req) ==
    [fn |-> fn, st |-> "inflight", tokenArg |-> tok, req |-> req, fetches |-> 1]

\* The same call once its promise has settled: what fetch did, and what the
\* caller of api got.
Settled(call, resp) ==
    [fn |-> "settled", st |-> IF ApiSettle(resp).ok THEN "ok" ELSE "failed",
     fetches |-> call.fetches, resp |-> resp, out |-> ApiSettle(resp)]

\* <Route path="/login"> and <Route path="/"> both choose by isLoggedIn, which
\* App computed when the page was loaded; "*" redirects to "/".
RouteView == IF isLoggedIn THEN "home" ELSE "login"

\* A full page load: App renders and reads the token.
Reload ==
    /\ page \in {"home", "login"}
    /\ gwCall' = NoCall                   \* a running call dies with the page
    /\ isLoggedIn' = Truthy(token)
    /\ page' = IF isLoggedIn' THEN "home" ELSE "login"
    /\ homeReq' = NoCall
    /\ user' = Null
    /\ UNCHANGED <<token, sessionRedirect, gwLast, gwPrev>>
    /\ UNCHANGED callbackVars
    /\ UNCHANGED <<swipeVars, wizardVars, formVars, createVars, tabVars>>

\* getUserPlaylists / getSwipeDeck / saveTrack / getRoast, up to the fetch.
WrapperCall(fn, pid, tid) ==
    /\ gwCall = NoCall
    /\ gwCall' = InFlight(fn, WrapperToken, WrapperRequest(fn, pid, tid))
    /\ UNCHANGED <<gwLast, gwPrev, homeReq, user>>
    /\ UNCHANGED storageVars
    /\ UNCHANGED callbackVars
    /\ UNCHANGED <<swipeVars, wizardVars, formVars, createVars, tabVars>>

\* A page calls api itself, with the token it chooses to pass (CallbackPage
\* and LoginPage pass none, HomePage passes the stored one).
ApiCall(endpoint, method, body, tok) ==
    /\ gwCall = NoCall
    /\ gwCall' = InFlight("api", tok, ApiRequest(endpoint, method, body, tok))
    /\ UNCHANGED <<gwLast, gwPrev, homeReq, user>>
    /\ UNCHANGED storageVars
    /\ UNCHANGED callbackVars
    /\ UNCHANGED <<swipeVars, wizardVars, formVars, createVars, tabVars>>

\* The promise of the call settles; api and the wrappers only pass the
\* result on to their caller.
GatewaySettle(resp) ==
    /\ gwCall # NoCall
    /\ gwCall' = NoCall
    /\ gwPrev' = gwLast
    /\ gwLast' = Settled(gwCall, resp)
    /\ UNCHANGED <<homeReq, user>>
    /\ UNCHANGED storageVars
    /\ UNCHANGED callbackVars
    /\ UNCHANGED <<swipeVars, wizardVars, formVars, createVars, tabVars>>

\* HomePage's effect: without a token go to /login, else GET /me with it.
HomeEffect ==
    /\ page = "home"
    /\ homeReq = NoCall
    /\ IF ~Truthy(token)
       THEN /\ page' = RouteView
            /\ UNCHANGED homeReq
       ELSE /\ homeReq' = InFlight("HomePage", token,
                             ApiRequest("/me", "GET", NoBody, token))
            /\ UNCHANGED page
    /\ UNCHANGED <<token, sessionRedirect, isLoggedIn>>
    /\ UNCHANGED <<gwCall, gwLast, gwPrev, user>>
    /\ UNCHANGED callbackVars
    /\ UNCHANGED <<swipeVars, wizardVars, formVars, createVars, tabVars>>

\* .then(setUser).catch(() => { localStorage.removeItem("token");
\*                              navigate("/login") })
HomeSettle(resp) ==
    /\ page = "home"
    /\ homeReq.st = "inflight"
    /\ gwPrev' = gwLast
    /\ gwLast' = Settled(homeReq, resp)
    /\ IF ApiSettle(resp).ok
       THEN /\ user' = ApiSettle(resp).value
            /\ homeReq' = Settled(homeReq, resp)
            /\ UNCHANGED <<token, page>>
       ELSE /\ token' = Null
            /\ page' = RouteView
            /\ homeReq' = NoCall          \* "/login" mounts a fresh view
            /\ user' = Null
    /\ UNCHANGED <<sessionRedirect, isLoggedIn, gwCall>>
    /\ UNCHANGED callbackVars
    /\ UNCHANGED <<swipeVars, wizardVars, formVars, createVars, tabVars>>

\* handleLogout
HomeLogout ==
    /\ page = "home"
    /\ token' = Null
    /\ page' = RouteView
    /\ homeReq' = NoCall
    /\ user' = Null
    /\ UNCHANGED <<sessionRedirect, isLoggedIn, gwCall, gwLast, gwPrev>>
    /\ UNCHANGED callbackVars
    /\ UNCHANGED <<swipeVars, wizardVars, formVars, createVars, tabVars>>

CallbackIdle ==
    /\ sessionRedirect = Null
    /\ beginAddr = Null
    /\ searchCode = Null
    /\ searchError = Null
    /\ calledRef = FALSE
    /\ cbError = ""
    /\ exchanges = <<>>
    /\ effectRuns = 0

GatewayInit ==
    /\ token \in StoredTokens
    /\ isLoggedIn = Truthy(token)
    /\ page = IF isLoggedIn THEN "home" ELSE "login"
    /\ CallbackIdle
    /\ GatewayIdle
    /\ SwipeIdle
    /\ WizardIdle
    /\ FormIdle
    /\ CreateIdle
    /\ TabsIdle

GatewayNext ==
    \/ Reload
    \/ \E e \in {"/me"}, m \in {"GET", "POST"}, b \in {NoBody, SomeBody([track_ids |-> <<"T1">>])}, t \in {Undefined, "", "jwt1"} :
          ApiCall(e, m, b, t)
    \/ \E fn \in {"getUserPlaylists", "getSwipeDeck", "saveTrack", "getRoast"}, pid \in {"P1"}, tid \in TrackIds :
          WrapperCall(fn, pid, tid)
    \/ \E r \in Responses : GatewaySettle(r)
    \/ HomeEffect
    \/ \E r \in Responses : HomeSettle(r)
    \/ HomeLogout

SpecGateway == GatewayInit /\ [][GatewayNext]_vars

\* What runs by itself is not postponed for ever: the effect of a mounted
\* HomePage and the settling of a request in flight.  Reloading, logging out
\* and starting a call are up to the user.
SpecGatewayLive ==
    /\ GatewayInit
    /\ [][GatewayNext]_vars
    /\ WF_<<page, homeReq>>(HomeEffect)
    /\ WF_homeReq(\E r \in Responses : HomeSettle(r))
    /\ WF_gwCall(\E r \in Responses : GatewaySettle(r))

----------------------------------------------------------------------------
(* SwipeDeckPage: the playlist-scoped page (pages/SwipeDeckPage.tsx) and   *)
(* the fixed-deck page; advanceCard is the same in both but for the        *)
(* selectedPlaylist guard.  The LIKE / NOPE overlay (swipeLabel, handleDrag) *)
(* is display only and is left out.                                        *)

MaxSaves  == 2
MaxTimers == 1
MaxDecks  == 2
MaxCounted == 2

EmptyDeckMessageAsFailure == "Failed to fetch"

EmptyDeckMessage ==
    IF variant = "playlist"
    THEN "Keine passenden Songs mit Preview gefunden. Versuch eine andere Playlist!"
    ELSE "Keine Song-Vorschlaege mit Preview verfuegbar. Versuche es spaeter nochmal!"

\* What a call of getSwipeDeck, getUserPlaylists or saveTrack gives its
\* caller: the value, or the message of the error api threw.
Failure == [ok |-> FALSE, n |-> 0, message |-> "Failed to fetch"]
DeckResults == {Failure} \cup { [ok |-> TRUE, n |-> k, message |-> ""] : k \in 0..MaxDeck }

\* deck[currentIndex] ?? null
TrackAt(d, i) == IF i < Len(d) THEN d[i + 1] ELSE Null
currentTrack == TrackAt(deck, currentIndex)

\* {phase === "swiping" && currentTrack && ( <SwipeCard/> ... buttons )}
CardShown == mounted /\ phase = "swiping" /\ currentTrack # Null

\* What the advanceCard of the current render has captured.
Closure ==
    [track |-> currentTrack, idx |-> currentIndex, len |-> Len(deck),
     pl |-> selectedPlaylist, deckNo |-> deckNo]

\* if (!currentTrack || !selectedPlaylist) return;   (fixed deck: !currentTrack)
GuardPasses(c) == c.track # Null /\ (variant = "fixed" \/ Truthy(c.pl))

RemoveAt(q, k) == [j \in 1..(Len(q) - 1) |-> IF j < k THEN q[j] ELSE q[j + 1]]

\* History only: decisions on one card are counted up to MaxCounted.
Decided(c) ==
    IF c.deckNo = deckNo /\ c.idx \in DOMAIN decisions
    THEN [decisions EXCEPT ![c.idx] = IF @ < MaxCounted THEN @ + 1 ELSE @]
    ELSE decisions

\* History only: saveTrack calls issued for one card, up to MaxCounted.
Requested(c) ==
    IF c.deckNo = deckNo /\ c.idx \in DOMAIN saveReqs
    THEN [saveReqs EXCEPT ![c.idx] = IF @ < MaxCounted THEN @ + 1 ELSE @]
    ELSE saveReqs

AfterSaveTailOnlyOnSuccess(ok) == [saved |-> IF ok THEN 1 ELSE 0, tail |-> ok]

\* try { await saveTrack(..); setSavedCount(c => c + 1) } catch { } and then
\* the rest of advanceCard on both paths.
AfterSave(ok) == [saved |-> IF ok THEN 1 ELSE 0, tail |-> TRUE]

\* if (currentIndex + 1 >= deck.length) setPhase("empty")
\* else setCurrentIndex(i => i + 1), with the closure's currentIndex and length.
AdvanceTail(c) ==
    IF c.idx + 1 >= c.len
       THEN phase' = "empty" /\ UNCHANGED currentIndex
       ELSE currentIndex' = currentIndex + 1 /\ UNCHANGED phase

\* advanceCard(direction) of closure c, up to its await or to its end.
\* State updates of an unmounted component are dropped.
AdvanceCard(c, direction) ==
    IF ~GuardPasses(c)
    THEN UNCHANGED <<phase, currentIndex, savedCount, skippedCount,
                     saves, decisions, saveReqs>>
    ELSE IF direction = "right"
    THEN /\ saves' = Append(saves, c)
         /\ decisions' = Decided(c)
         /\ saveReqs' = Requested(c)
         /\ UNCHANGED <<phase, currentIndex, savedCount, skippedCount>>
    ELSE /\ decisions' = Decided(c)
         /\ UNCHANGED <<savedCount, saves, saveReqs>>
         /\ IF mounted
            THEN skippedCount' = skippedCount + 1 /\ AdvanceTail(c)
            ELSE UNCHANGED <<skippedCount, phase, currentIndex>>

\* The page is opened: initial state, and the mount effect asks for the
\* playlists (playlist-scoped page only).
OpenSwipe(v) ==
    /\ ~mounted
    /\ deckNo = 0
    /\ saves = <<>> /\ timers = <<>> /\ loads = <<>>
    /\ variant' = v
    /\ mounted' = TRUE
    /\ phase' = IF v = "playlist" THEN "pick-playlist" ELSE "intro"
    /\ playlistsLoading' = (v = "playlist")
    /\ UNCHANGED <<loading, playlists, selectedPlaylist, deck, currentIndex, swError, savedCount, skippedCount, loads, saves, timers,
                   deckNo, lastLoad, deckSource, decisions, saveReqs>>
    /\ UNCHANGED <<storageVars, callbackVars, gatewayVars, wizardVars, formVars, createVars, tabVars>>

\* getUserPlaylists().then(setPlaylists).catch(setError).finally(...)
PlaylistsSettle(ok, ps) ==
    /\ mounted /\ variant = "playlist" /\ playlistsLoading
    /\ playlistsLoading' = FALSE
    /\ IF ok
       THEN playlists' = ps /\ UNCHANGED swError
       ELSE swError' = Failure.message /\ UNCHANGED playlists
    /\ UNCHANGED <<variant, mounted, phase, loading, selectedPlaylist, deck,
                   currentIndex, savedCount, skippedCount, loads, saves,
                   timers, deckNo, lastLoad, deckSource, decisions, saveReqs>>
    /\ UNCHANGED <<storageVars, callbackVars, gatewayVars, wizardVars, formVars, createVars, tabVars>>

\* loadDeck(playlist) up to its await (playlist-scoped page).
LoadDeckStart(pl) ==
    /\ deckNo + Len(loads) < MaxDecks
    /\ phase' = "loading"
    /\ swError' = ""
    /\ selectedPlaylist' = pl
    /\ savedCount' = 0
    /\ skippedCount' = 0
    /\ loads' = Append(loads, [pl |-> pl])
    /\ UNCHANGED <<variant, mounted, loading, playlists, playlistsLoading, deck,
                   currentIndex, saves, timers, deckNo, lastLoad, deckSource, decisions, saveReqs>>
    /\ UNCHANGED <<storageVars, callbackVars, gatewayVars, wizardVars, formVars, createVars, tabVars>>

\* <button onClick={() => loadDeck(pl)}> of the playlist list
PickPlaylist(pl) ==
    /\ mounted /\ variant = "playlist" /\ phase = "pick-playlist"
    /\ ~playlistsLoading
    /\ \E j \in DOMAIN playlists : playlists[j] = pl
    /\ LoadDeckStart(pl)

\* "Nochmal": selectedPlaylist && loadDeck(selectedPlaylist)
Restart ==
    /\ mounted /\ variant = "playlist" /\ phase = "empty"
    /\ Truthy(selectedPlaylist)
    /\ LoadDeckStart(selectedPlaylist)

\* "Andere Playlist"
OtherPlaylist ==
    /\ mounted /\ variant = "playlist" /\ phase = "empty"
    /\ phase' = "pick-playlist"
    /\ swError' = ""
    /\ UNCHANGED <<variant, mounted, loading, playlists, playlistsLoading,
                   selectedPlaylist, deck, currentIndex, savedCount,
                   skippedCount, loads, saves, timers, deckNo, lastLoad, deckSource, decisions, saveReqs>>
    /\ UNCHANGED <<storageVars, callbackVars, gatewayVars, wizardVars, formVars, createVars, tabVars>>

\* handleStart / handleReload up to the await inside loadDeck (fixed deck).
FixedLoadStart ==
    /\ mounted /\ variant = "fixed" /\ ~loading
    /\ phase \in {"intro", "empty"}
    /\ deckNo + Len(loads) < MaxDecks
    /\ IF phase = "empty"
       THEN savedCount' = 0 /\ skippedCount' = 0
       ELSE UNCHANGED <<savedCount, skippedCount>>
    /\ loading' = TRUE
    /\ swError' = ""
    /\ loads' = Append(loads, [pl |-> Null])
    /\ UNCHANGED <<variant, mounted, phase, playlists, playlistsLoading,
                   selectedPlaylist, deck, currentIndex, saves, timers,
                   deckNo, lastLoad, deckSource, decisions, saveReqs>>
    /\ UNCHANGED <<storageVars, callbackVars, gatewayVars, wizardVars, formVars, createVars, tabVars>>

\* Track ids: "T.." for tracks that have a preview, "N.." for tracks that
\* have none.
TrackId(j) == "T" \o ToString(j)
NoPreviewId(j) == "N" \o ToString(j)

\* preview_url of a track ("" when the provider has no preview for it).
PreviewUrl(t) ==
    IF t \in { TrackId(j) : j \in 1..MaxDeck } THEN "https://p.scdn/" \o t ELSE ""

HasPreview(t) == PreviewUrl(t) # ""

\* The candidates the backend draws a deck from, with previews and without.
Pool ==
    [j \in 1..(2 * MaxDeck) |->
        IF j % 2 = 1 THEN TrackId((j + 1) \div 2) ELSE NoPreviewId(j \div 2)]

\* GET /discover/swipe: the candidates in order, preview-filtered.
ServedTracks == SelectSeq(Pool, HasPreview)

InstallDeckFromPool(n, pl) ==
    /\ deck' = SubSeq(Pool, 1, n)
    /\ currentIndex' = 0
    /\ deckNo' = deckNo + 1
    /\ deckSource' = pl
    /\ decisions' = NoDecisions
    /\ saveReqs' = NoDecisions

\* setDeck(tracks); setCurrentIndex(0)
InstallDeck(n, pl) ==
    /\ deck' = SubSeq(ServedTracks, 1, n)
    /\ currentIndex' = 0
    /\ deckNo' = deckNo + 1
    /\ deckSource' = pl
    /\ decisions' = NoDecisions
    /\ saveReqs' = NoDecisions

\* The rest of loadDeck once getSwipeDeck has settled; in the fixed-deck page
\* also the setPhase("swiping") of handleStart / handleReload.
LoadSettle(k, res) ==
    /\ k \in DOMAIN loads
    /\ loads' = RemoveAt(loads, k)
    /\ IF ~mounted
       THEN UNCHANGED <<phase, loading, deck, currentIndex, swError, deckNo, lastLoad, deckSource, decisions, saveReqs>>
       ELSE /\ lastLoad' = res
            /\ IF res.ok /\ res.n > 0
               THEN InstallDeck(res.n, loads[k].pl) /\ UNCHANGED swError
               ELSE /\ swError' = IF res.ok THEN EmptyDeckMessage ELSE res.message
                    /\ UNCHANGED <<deck, currentIndex, deckNo, deckSource, decisions, saveReqs>>
            /\ IF variant = "fixed"
               THEN loading' = FALSE /\ phase' = "swiping"
               ELSE /\ UNCHANGED loading
                    /\ phase' = IF res.ok /\ res.n > 0 THEN "swiping"
                                ELSE "pick-playlist"
    /\ UNCHANGED <<variant, mounted, playlists, playlistsLoading, selectedPlaylist, savedCount, skippedCount, saves, timers>>
    /\ UNCHANGED <<storageVars, callbackVars, gatewayVars, wizardVars, formVars, createVars, tabVars>>

\* The two quick-action buttons.
ClickButton(direction) ==
    /\ CardShown
    /\ direction = "right" => Len(saves) < MaxSaves
    /\ AdvanceCard(Closure, direction)
    /\ UNCHANGED <<variant, mounted, loading, playlists, playlistsLoading,
                   selectedPlaylist, deck, swError, loads, timers, deckNo, lastLoad, deckSource>>
    /\ UNCHANGED <<storageVars, callbackVars, gatewayVars, wizardVars, formVars, createVars, tabVars>>

\* handleDragEnd beyond the threshold: setTimeout(() => onSwipe(dir), 200),
\* onSwipe being the advanceCard this render of the card was given.
DragEndSwipe(direction) ==
    /\ CardShown
    /\ Len(timers) < MaxTimers
    /\ timers' = Append(timers, [dir |-> direction, c |-> Closure])
    /\ UNCHANGED <<variant, mounted, phase, loading, playlists, playlistsLoading,
                   selectedPlaylist, deck, currentIndex, swError,
                   savedCount, skippedCount, loads, saves, deckNo, lastLoad, deckSource, decisions, saveReqs>>
    /\ UNCHANGED <<storageVars, callbackVars, gatewayVars, wizardVars, formVars, createVars, tabVars>>

\* The 200 ms timer runs its callback.
TimerFire(k) ==
    /\ k \in DOMAIN timers
    /\ timers[k].dir = "right" => Len(saves) < MaxSaves
    /\ timers' = RemoveAt(timers, k)
    /\ AdvanceCard(timers[k].c, timers[k].dir)
    /\ UNCHANGED <<variant, mounted, loading, playlists, playlistsLoading,
                   selectedPlaylist, deck, swError, loads, deckNo, lastLoad, deckSource>>
    /\ UNCHANGED <<storageVars, callbackVars, gatewayVars, wizardVars, formVars, createVars, tabVars>>

\* advanceCard("right") after its await.
SaveSettle(k, ok) ==
    /\ k \in DOMAIN saves
    /\ saves' = RemoveAt(saves, k)
    /\ IF ~mounted
       THEN UNCHANGED <<savedCount, phase, currentIndex>>
       ELSE /\ savedCount' = savedCount + AfterSave(ok).saved
            /\ IF AfterSave(ok).tail
               THEN AdvanceTail(saves[k])
               ELSE UNCHANGED <<phase, currentIndex>>
    /\ UNCHANGED <<variant, mounted, loading, playlists, playlistsLoading,
                   selectedPlaylist, deck, swError, skippedCount, loads, timers,
                   deckNo, lastLoad, deckSource, decisions, saveReqs>>
    /\ UNCHANGED <<storageVars, callbackVars, gatewayVars, wizardVars, formVars, createVars, tabVars>>

\* Header back button: from swiping back to the playlist list (playlist-scoped
\* page), otherwise navigate("/"), which unmounts the page.
BackButton ==
    /\ mounted
    /\ IF variant = "playlist" /\ phase = "swiping"
       THEN /\ phase' = "pick-playlist"
            /\ UNCHANGED <<mounted, loading, playlists, playlistsLoading,
                           selectedPlaylist, deck, currentIndex, swError,
                           savedCount, skippedCount, decisions, saveReqs,
                           lastLoad, deckSource>>
       ELSE \* the component's state goes with it; its requests and timers stay
            /\ mounted' = FALSE
            /\ phase' = "pick-playlist"
            /\ loading' = FALSE
            /\ playlists' = <<>>
            /\ playlistsLoading' = TRUE
            /\ selectedPlaylist' = Null
            /\ deck' = <<>>
            /\ currentIndex' = 0
            /\ swError' = ""
            /\ savedCount' = 0
            /\ skippedCount' = 0
            /\ decisions' = NoDecisions
            /\ saveReqs' = NoDecisions
            /\ lastLoad' = NoLoad
            /\ deckSource' = Null
    /\ UNCHANGED <<variant, loads, saves, timers, deckNo>>
    /\ UNCHANGED <<storageVars, callbackVars, gatewayVars, wizardVars, formVars, createVars, tabVars>>

\* A control that starts a deck load is rendered and enabled: a playlist
\* button or "Nochmal" (playlist-scoped page), the start or reload button
\* (fixed-deck page).
LoadControlOffered ==
    /\ mounted
    /\ IF variant = "playlist"
       THEN \/ phase = "pick-playlist" /\ ~playlistsLoading /\ playlists # <<>>
            \/ phase = "empty" /\ Truthy(selectedPlaylist)
       ELSE phase \in {"intro", "empty"} /\ ~loading

SwipeInit ==
    /\ token = "jwt0"
    /\ isLoggedIn = Truthy(token)
    /\ page = IF isLoggedIn THEN "home" ELSE "login"
    /\ CallbackIdle
    /\ GatewayIdle
    /\ SwipeIdle
    /\ WizardIdle
    /\ FormIdle
    /\ CreateIdle
    /\ TabsIdle

SwipeNext ==
    \/ \E v \in {"playlist", "fixed"} : OpenSwipe(v)
    \/ \E ok \in BOOLEAN, ps \in {<<>>, <<"P1", "P2">>} : PlaylistsSettle(ok, ps)
    \/ \E pl \in {"P1", "P2"} : PickPlaylist(pl)
    \/ Restart
    \/ OtherPlaylist
    \/ FixedLoadStart
    \/ \E k \in 1..MaxDecks, r \in DeckResults : LoadSettle(k, r)
    \/ \E d \in {"left", "right"} : ClickButton(d)
    \/ \E d \in {"left", "right"} : DragEndSwipe(d)
    \/ \E k \in 1..MaxTimers : TimerFire(k)
    \/ \E k \in 1..MaxSaves, ok \in BOOLEAN : SaveSettle(k, ok)
    \/ BackButton

SpecSwipe == SwipeInit /\ [][SwipeNext]_vars

----------------------------------------------------------------------------
(* DailyDrivePage and GymPlaylistPage: select -> generating -> done.  The   *)
(* two pages differ in what the mount effect loads, in the generate         *)
(* button's disabled condition, in the auto-refresh toggle and in           *)
(* handleReset.                                                             *)

MaxMounts  == 2
MaxWzCalls == 2

\* generatingSteps.length
GeneratingSteps == 5

SourceIds == {"S1", "S2"}

WzBody(json, detail, ar) ==
    [json |-> json, detail |-> detail, access_token |-> Undefined,
     auto_refresh |-> ar]

\* What fetch can give a call of a wizard page.
WzResponses ==
    { NetworkFailure,
      [kind |-> "http", status |-> 500, body |-> Unparsable],
      [kind |-> "http", status |-> 401,
       body |-> WzBody("object", "Not authenticated", Undefined)],
      [kind |-> "http", status |-> 200, body |-> WzBody("null", Undefined, Undefined)] }
    \cup { [kind |-> "http", status |-> 200, body |-> WzBody("object", Undefined, a)] :
              a \in BOOLEAN }

\* GET /gym-playlist/settings ... .catch(() => null); present is FALSE for
\* the null of the catch.
NoSettings == [present |-> FALSE, auto_refresh |-> FALSE, source_playlist_ids |-> {}]
GymSettings ==
    {NoSettings} \cup { [present |-> TRUE, auto_refresh |-> a,
                         source_playlist_ids |-> ids] :
                           a \in BOOLEAN, ids \in {{}, {"S1"}} }

WzCall(inst, fn, arg) == [inst |-> inst, fn |-> fn, arg |-> arg]

\* The component that issued call c is the one mounted now.
Alive(c) == wzMounted /\ c.inst = wzInst

NullReadMessage == "Cannot read properties of null"

\* The page is opened: initial state and the mount effect, which returns at
\* once without a token.
OpenWizard(k) ==
    /\ ~wzMounted
    /\ wzInst < MaxMounts
    /\ wizard' = k
    /\ wzMounted' = TRUE
    /\ wzInst' = wzInst + 1
    /\ loadingSources' = TRUE
    /\ IF Truthy(token)
       THEN /\ Len(wzCalls) < MaxWzCalls
            /\ wzCalls' = Append(wzCalls, WzCall(wzInst + 1, "sources", Null))
       ELSE UNCHANGED wzCalls
    /\ UNCHANGED <<step, generatingStep, wzSources, selectedIds, autoRefresh,
                   wzError, result, wzLast>>
    /\ UNCHANGED srvAutoRefresh
    /\ UNCHANGED <<storageVars, callbackVars, gatewayVars, swipeVars, formVars, createVars, tabVars>>

SourcesSettleNeedsSettings(k, resp, settings) ==
    /\ k \in DOMAIN wzCalls
    /\ wzCalls[k].fn = "sources"
    /\ settings.present => settings.auto_refresh = srvAutoRefresh   \* as stored
    /\ wzCalls' = RemoveAt(wzCalls, k)
    /\ IF ~Alive(wzCalls[k])
       THEN UNCHANGED <<wzSources, loadingSources, selectedIds, autoRefresh, wzError>>
       ELSE LET out == ApiSettle(resp) IN
            /\ loadingSources' = FALSE
            /\ IF out.ok /\ out.value.json = "object"
                  /\ (wizard = "gym" => settings.present)
               THEN /\ wzSources' = SourceIds
                    /\ UNCHANGED wzError
                    /\ IF wizard = "gym" /\ settings.present
                       THEN /\ autoRefresh' = settings.auto_refresh
                            /\ selectedIds' =
                                  IF settings.source_playlist_ids # {}
                                  THEN settings.source_playlist_ids
                                  ELSE selectedIds
                       ELSE UNCHANGED <<autoRefresh, selectedIds>>
               ELSE /\ wzError' = IF out.ok THEN NullReadMessage
                                  ELSE CatchMessage(out.error, "")
                    /\ UNCHANGED <<wzSources, autoRefresh, selectedIds>>
    /\ UNCHANGED <<wizard, wzMounted, wzInst, step, generatingStep, result, wzLast>>
    /\ UNCHANGED srvAutoRefresh
    /\ UNCHANGED <<storageVars, callbackVars, gatewayVars, swipeVars, formVars, createVars, tabVars>>

\* The mount effect's request settles: .then / .catch / .finally.
SourcesSettle(k, resp, settings) ==
    /\ k \in DOMAIN wzCalls
    /\ wzCalls[k].fn = "sources"
    /\ settings.present => settings.auto_refresh = srvAutoRefresh   \* as stored
    /\ wzCalls' = RemoveAt(wzCalls, k)
    /\ IF ~Alive(wzCalls[k])
       THEN UNCHANGED <<wzSources, loadingSources, selectedIds, autoRefresh, wzError>>
       ELSE LET out == ApiSettle(resp) IN
            /\ loadingSources' = FALSE
            /\ IF out.ok /\ out.value.json = "object"
               THEN /\ wzSources' = SourceIds
                    /\ UNCHANGED wzError
                    /\ IF wizard = "gym" /\ settings.present
                       THEN /\ autoRefresh' = settings.auto_refresh
                            /\ selectedIds' =
                                  IF settings.source_playlist_ids # {}
                                  THEN settings.source_playlist_ids
                                  ELSE selectedIds
                       ELSE UNCHANGED <<autoRefresh, selectedIds>>
               ELSE /\ wzError' = IF out.ok THEN NullReadMessage
                                  ELSE CatchMessage(out.error, "")
                    /\ UNCHANGED <<wzSources, autoRefresh, selectedIds>>
    /\ UNCHANGED <<wizard, wzMounted, wzInst, step, generatingStep, result, wzLast>>
    /\ UNCHANGED srvAutoRefresh
    /\ UNCHANGED <<storageVars, callbackVars, gatewayVars, swipeVars, formVars, createVars, tabVars>>

\* toggleShow / togglePlaylist
Toggle(id) ==
    /\ wzMounted /\ step = "select" /\ ~loadingSources
    /\ id \in wzSources
    /\ selectedIds' = IF id \in selectedIds THEN selectedIds \ {id}
                      ELSE selectedIds \cup {id}
    /\ UNCHANGED <<wizard, wzMounted, wzInst, step, generatingStep, wzSources,
                   loadingSources, autoRefresh, wzError, result, wzLast, wzCalls>>
    /\ UNCHANGED srvAutoRefresh
    /\ UNCHANGED <<storageVars, callbackVars, gatewayVars, swipeVars, formVars, createVars, tabVars>>

\* handleToggleAutoRefresh up to its await (Gym).
ToggleAutoRefresh ==
    /\ wzMounted /\ wizard = "gym" /\ step = "select"
    /\ Len(wzCalls) < MaxWzCalls
    /\ autoRefresh' = ~autoRefresh
    /\ wzCalls' = Append(wzCalls, WzCall(wzInst, "toggle", ~autoRefresh))
    /\ UNCHANGED <<wizard, wzMounted, wzInst, step, generatingStep, wzSources,
                   loadingSources, selectedIds, wzError, result, wzLast>>
    /\ UNCHANGED srvAutoRefresh
    /\ UNCHANGED <<storageVars, callbackVars, gatewayVars, swipeVars, formVars, createVars, tabVars>>

\* The PUT settles: the backend has stored the value when it answers 2xx;
\* catch { setAutoRefresh(!newValue) }
ToggleSettle(k, resp) ==
    /\ k \in DOMAIN wzCalls
    /\ wzCalls[k].fn = "toggle"
    /\ wzCalls' = RemoveAt(wzCalls, k)
    /\ IF Alive(wzCalls[k]) /\ ~ApiSettle(resp).ok
       THEN autoRefresh' = ~wzCalls[k].arg
       ELSE UNCHANGED autoRefresh
    /\ srvAutoRefresh' = IF resp.kind = "http" /\ ResOk(resp)
                         THEN wzCalls[k].arg ELSE srvAutoRefresh
    /\ UNCHANGED <<wizard, wzMounted, wzInst, step, generatingStep, wzSources,
                   loadingSources, selectedIds, wzError, result, wzLast>>
    /\ UNCHANGED <<storageVars, callbackVars, gatewayVars, swipeVars, formVars, createVars, tabVars>>

GenerateOfferedInEveryStep ==
    wzMounted /\ (wizard = "gym" => selectedIds # {})

\* The generate button is rendered in the select step only; in Gym it is
\* disabled while nothing is selected.
GenerateOffered ==
    /\ wzMounted /\ step = "select"
    /\ wizard = "gym" => selectedIds # {}

\* handleGenerate up to its await.
HandleGenerate ==
    /\ GenerateOffered
    /\ Len(wzCalls) < MaxWzCalls
    /\ wzError' = ""
    /\ step' = "generating"
    /\ generatingStep' = 0
    /\ wzCalls' = Append(wzCalls, WzCall(wzInst, "generate", selectedIds))
    /\ UNCHANGED <<wizard, wzMounted, wzInst, wzSources, loadingSources,
                   selectedIds, autoRefresh, result, wzLast>>
    /\ UNCHANGED srvAutoRefresh
    /\ UNCHANGED <<storageVars, callbackVars, gatewayVars, swipeVars, formVars, createVars, tabVars>>

TickDoneAtLast ==
    /\ wzMounted /\ step = "generating"
    /\ IF generatingStep < GeneratingSteps - 1
       THEN generatingStep' = generatingStep + 1 /\ UNCHANGED step
       ELSE step' = "done" /\ UNCHANGED generatingStep
    /\ UNCHANGED <<wizard, wzMounted, wzInst, wzSources, loadingSources,
                   selectedIds, autoRefresh, wzError, result, wzLast, wzCalls>>
    /\ UNCHANGED srvAutoRefresh
    /\ UNCHANGED <<storageVars, callbackVars, gatewayVars, swipeVars, formVars, createVars, tabVars>>

\* The interval of the generating-step effect fires; the interval exists
\* only while the step is "generating".
Tick ==
    /\ wzMounted /\ step = "generating"
    /\ generatingStep' = IF generatingStep < GeneratingSteps - 1
                         THEN generatingStep + 1 ELSE generatingStep
    /\ UNCHANGED <<wizard, wzMounted, wzInst, step, wzSources, loadingSources,
                   selectedIds, autoRefresh, wzError, result, wzLast, wzCalls>>
    /\ UNCHANGED srvAutoRefresh
    /\ UNCHANGED <<storageVars, callbackVars, gatewayVars, swipeVars, formVars, createVars, tabVars>>

\* handleGenerate after its await: setResult(data); (Gym:
\* setAutoRefresh(data.auto_refresh), which throws on a null body, into the
\* catch); setStep("done"), or the catch: setError, setStep("select").
GenerateSettle(k, resp) ==
    /\ k \in DOMAIN wzCalls
    /\ wzCalls[k].fn = "generate"
    /\ (wizard = "gym" /\ resp.kind = "http" /\ ResOk(resp) /\ resp.body.json = "object")
          => resp.body.auto_refresh = srvAutoRefresh                \* as stored
    /\ wzCalls' = RemoveAt(wzCalls, k)
    /\ IF ~Alive(wzCalls[k])
       THEN UNCHANGED <<step, autoRefresh, wzError, result, wzLast>>
       ELSE LET out == ApiSettle(resp) IN
            /\ wzLast' = out
            /\ IF ~out.ok
               THEN /\ wzError' = CatchMessage(out.error, "Etwas ist schiefgelaufen")
                    /\ step' = "select"
                    /\ UNCHANGED <<autoRefresh, result>>
               ELSE IF out.value.json = "null"
               THEN /\ result' = Null
                    /\ UNCHANGED autoRefresh
                    /\ IF wizard = "gym"
                       THEN wzError' = NullReadMessage /\ step' = "select"
                       ELSE step' = "done" /\ UNCHANGED wzError
               ELSE /\ result' = "playlist"
                    /\ autoRefresh' = IF wizard = "gym" THEN out.value.auto_refresh
                                      ELSE autoRefresh
                    /\ step' = "done"
                    /\ UNCHANGED wzError
    /\ UNCHANGED <<wizard, wzMounted, wzInst, generatingStep, wzSources,
                   loadingSources, selectedIds>>
    /\ UNCHANGED srvAutoRefresh
    /\ UNCHANGED <<storageVars, callbackVars, gatewayVars, swipeVars, formVars, createVars, tabVars>>

HandleResetClearsSelection ==
    /\ wzMounted /\ step = "done" /\ Truthy(result)
    /\ step' = "select"
    /\ result' = Null
    /\ generatingStep' = 0
    /\ selectedIds' = {}
    /\ UNCHANGED <<wizard, wzMounted, wzInst, wzSources, loadingSources,
                   autoRefresh, wzError, wzCalls, wzLast>>
    /\ UNCHANGED srvAutoRefresh
    /\ UNCHANGED <<storageVars, callbackVars, gatewayVars, swipeVars, formVars, createVars, tabVars>>

\* handleReset: the button is rendered under step === "done" && result.
HandleReset ==
    /\ wzMounted /\ step = "done" /\ Truthy(result)
    /\ step' = "select"
    /\ result' = Null
    /\ generatingStep' = 0
    /\ selectedIds' = IF wizard = "daily" THEN {} ELSE selectedIds
    /\ UNCHANGED <<wizard, wzMounted, wzInst, wzSources, loadingSources,
                   autoRefresh, wzError, wzCalls, wzLast>>
    /\ UNCHANGED srvAutoRefresh
    /\ UNCHANGED <<storageVars, callbackVars, gatewayVars, swipeVars, formVars, createVars, tabVars>>

\* Header back button: navigate("/") unmounts the page; its state goes, its
\* requests stay in flight.
WizardBack ==
    /\ wzMounted
    /\ wzMounted' = FALSE
    /\ step' = "select"
    /\ generatingStep' = 0
    /\ wzSources' = {}
    /\ loadingSources' = TRUE
    /\ selectedIds' = {}
    /\ autoRefresh' = FALSE
    /\ wzError' = ""
    /\ result' = Null
    /\ wzLast' = NoOutcome
    /\ UNCHANGED <<wizard, wzInst, wzCalls>>
    /\ UNCHANGED srvAutoRefresh
    /\ UNCHANGED <<storageVars, callbackVars, gatewayVars, swipeVars, formVars, createVars, tabVars>>

WizardInit ==
    /\ token \in StoredTokens
    /\ isLoggedIn = Truthy(token)
    /\ page = IF isLoggedIn THEN "home" ELSE "login"
    /\ CallbackIdle
    /\ GatewayIdle
    /\ SwipeIdle
    /\ WizardIdle
    /\ FormIdle
    /\ CreateIdle
    /\ TabsIdle

WizardNext ==
    \/ \E k \in {"daily", "gym"} : OpenWizard(k)
    \/ \E k \in 1..MaxWzCalls, r \in WzResponses, st \in GymSettings :
          SourcesSettle(k, r, st)
    \/ \E id \in SourceIds : Toggle(id)
    \/ ToggleAutoRefresh
    \/ \E k \in 1..MaxWzCalls, r \in WzResponses : ToggleSettle(k, r)
    \/ HandleGenerate
    \/ Tick
    \/ \E k \in 1..MaxWzCalls, r \in WzResponses : GenerateSettle(k, r)
    \/ HandleReset
    \/ WizardBack

SpecWizard == WizardInit /\ [][WizardNext]_vars

\* What runs without the user: a listing request in flight settles.
SpecWizardLive ==
    SpecWizard /\ WF_wzCalls(\E k \in 1..MaxWzCalls, r \in WzResponses, st \in GymSettings :
                                SourcesSettle(k, r, st))

----------------------------------------------------------------------------
(* DiscoverPage's prompt form and RegisterPage's form (SpecForms).          *)

MaxPromptLen == 2

\* String.prototype.trim strips white space and line terminators.
Whitespace == {" ", "\n"}

\* What a password field can hold; both fields are `required`, so a submit
\* never sees an empty one.
Passwords == {"pw", "pw ", "Pw"}

RECURSIVE TrimStart(_)
TrimStart(p) ==
    IF p # <<>> /\ Head(p) \in Whitespace THEN TrimStart(Tail(p)) ELSE p

RECURSIVE TrimEnd(_)
TrimEnd(p) ==
    IF p # <<>> /\ p[Len(p)] \in Whitespace
    THEN TrimEnd(SubSeq(p, 1, Len(p) - 1))
    ELSE p

TrimNothing(p) == p

\* prompt.trim()
Trim(p) == TrimEnd(TrimStart(p))

\* The user opens /discover or /register: a fresh page that has seen no submit.
OpenForm(pg) ==
    /\ formPage = "none"
    /\ formPage' = pg
    /\ dsLast' = IF pg \in {"discover", "likes"} THEN NoSubmit ELSE dsLast
    /\ rgLast' = IF pg = "register" THEN NoSubmit ELSE rgLast
    /\ UNCHANGED <<prompt, dsLoading, dsError, dsResult, dsCall>>
    /\ UNCHANGED <<password, confirmPassword, rgLoading, rgError, rgCall>>
    /\ UNCHANGED <<dsSelectedPlaylist, contextSongs, loadingPlaylistTracks, dsTracksCalls>>
    /\ UNCHANGED <<savedSongs, savingAll, saveAllResult, dsSaveCall>>
    /\ UNCHANGED <<liked, dismissed, creatingPlaylist, playlistResult, dsPlaylistCall>>
    /\ UNCHANGED <<storageVars, callbackVars, gatewayVars, swipeVars, wizardVars, createVars, tabVars>>

\* onChange={(e) => setPrompt(e.target.value)}
SetPrompt(p) ==
    /\ formPage \in {"discover", "likes"}
    /\ prompt' = p
    /\ UNCHANGED <<formPage, dsLoading, dsError, dsResult, dsCall, dsLast>>
    /\ UNCHANGED <<password, confirmPassword, rgLoading, rgError, rgCall, rgLast>>
    /\ UNCHANGED <<dsSelectedPlaylist, contextSongs, loadingPlaylistTracks, dsTracksCalls>>
    /\ UNCHANGED <<savedSongs, savingAll, saveAllResult, dsSaveCall>>
    /\ UNCHANGED <<liked, dismissed, creatingPlaylist, playlistResult, dsPlaylistCall>>
    /\ UNCHANGED <<storageVars, callbackVars, gatewayVars, swipeVars, wizardVars, createVars, tabVars>>

\* handleDiscover of either variant of the page, up to its await: the variants
\* differ in the state they reset and in the body.  The submit event reaches it while
\* no request is running (the submit button is disabled while loading).
HandleDiscover ==
    /\ formPage \in {"discover", "likes"}
    /\ ~dsLoading
    /\ IF Trim(prompt) = <<>>                  \* if (!prompt.trim()) return
       THEN /\ dsLast' = [kind |-> "discover", prompt |-> prompt, sent |-> FALSE]
            /\ UNCHANGED <<dsError, dsResult, dsLoading, dsCall>>
            /\ UNCHANGED <<savedSongs, saveAllResult>>
            /\ UNCHANGED <<liked, dismissed, playlistResult>>
       ELSE /\ dsError' = ""
            /\ dsResult' = <<>>
            /\ IF formPage = "discover"
               THEN /\ savedSongs' = {}
                    /\ saveAllResult' = Null
                    /\ UNCHANGED <<liked, dismissed, playlistResult>>
               ELSE /\ liked' = {}
                    /\ dismissed' = {}
                    /\ playlistResult' = Null
                    /\ UNCHANGED <<savedSongs, saveAllResult>>
            /\ dsLoading' = TRUE
            /\ dsCall' = [fn |-> "discover", st |-> "inflight",
                          req |-> ApiRequest("/discover", "POST",
                                      IF formPage = "discover"
                                      THEN SomeBody([prompt |-> Trim(prompt),
                                                     context_songs |-> contextSongs])
                                      ELSE SomeBody([prompt |-> Trim(prompt)]),
                                      IF Truthy(token) THEN token ELSE "")]
            /\ dsLast' = [kind |-> "discover", prompt |-> prompt, sent |-> TRUE]
    /\ UNCHANGED <<formPage, prompt>>
    /\ UNCHANGED <<dsSelectedPlaylist, contextSongs, loadingPlaylistTracks, dsTracksCalls>>
    /\ UNCHANGED <<savingAll, dsSaveCall, creatingPlaylist, dsPlaylistCall>>
    /\ UNCHANGED <<password, confirmPassword, rgLoading, rgError, rgCall, rgLast>>
    /\ UNCHANGED <<storageVars, callbackVars, gatewayVars, swipeVars, wizardVars, createVars, tabVars>>

\* handleDiscover after its await: setResult(data), or catch; finally.
DiscoverSettle(resp, songs) ==
    /\ formPage \in {"discover", "likes"}
    /\ dsCall.st = "inflight"
    /\ LET out == ApiSettle(resp) IN
         IF out.ok
         THEN /\ dsResult' = IF out.value.json = "object" THEN <<songs>> ELSE <<>>
              /\ UNCHANGED dsError
         ELSE /\ dsError' = CatchMessage(out.error, "Etwas ist schiefgelaufen")
              /\ UNCHANGED dsResult
    /\ dsLoading' = FALSE
    /\ dsCall' = NoCall
    /\ UNCHANGED <<formPage, prompt, dsLast>>
    /\ UNCHANGED <<password, confirmPassword, rgLoading, rgError, rgCall, rgLast>>
    /\ UNCHANGED <<dsSelectedPlaylist, contextSongs, loadingPlaylistTracks, dsTracksCalls>>
    /\ UNCHANGED <<savedSongs, savingAll, saveAllResult, dsSaveCall>>
    /\ UNCHANGED <<liked, dismissed, creatingPlaylist, playlistResult, dsPlaylistCall>>
    /\ UNCHANGED <<storageVars, callbackVars, gatewayVars, swipeVars, wizardVars, createVars, tabVars>>

\* onChange of the password field
SetPassword(p) ==
    /\ formPage = "register"
    /\ password' = p
    /\ UNCHANGED <<formPage, confirmPassword, rgLoading, rgError, rgCall, rgLast>>
    /\ UNCHANGED <<prompt, dsLoading, dsError, dsResult, dsCall, dsLast>>
    /\ UNCHANGED <<dsSelectedPlaylist, contextSongs, loadingPlaylistTracks, dsTracksCalls>>
    /\ UNCHANGED <<savedSongs, savingAll, saveAllResult, dsSaveCall>>
    /\ UNCHANGED <<liked, dismissed, creatingPlaylist, playlistResult, dsPlaylistCall>>
    /\ UNCHANGED <<storageVars, callbackVars, gatewayVars, swipeVars, wizardVars, createVars, tabVars>>

\* onChange of the confirmation field
SetConfirmPassword(p) ==
    /\ formPage = "register"
    /\ confirmPassword' = p
    /\ UNCHANGED <<formPage, password, rgLoading, rgError, rgCall, rgLast>>
    /\ UNCHANGED <<prompt, dsLoading, dsError, dsResult, dsCall, dsLast>>
    /\ UNCHANGED <<dsSelectedPlaylist, contextSongs, loadingPlaylistTracks, dsTracksCalls>>
    /\ UNCHANGED <<savedSongs, savingAll, saveAllResult, dsSaveCall>>
    /\ UNCHANGED <<liked, dismissed, creatingPlaylist, playlistResult, dsPlaylistCall>>
    /\ UNCHANGED <<storageVars, callbackVars, gatewayVars, swipeVars, wizardVars, createVars, tabVars>>

\* RegisterPage.handleSubmit up to its await; the browser submits the form only
\* with both `required` fields filled and the button enabled.
HandleSubmit ==
    /\ formPage = "register"
    /\ ~rgLoading
    /\ Truthy(password) /\ Truthy(confirmPassword)
    /\ IF password # confirmPassword
       THEN /\ rgError' = "Passwords do not match"
            /\ rgLast' = [kind |-> "register", password |-> password,
                          confirm |-> confirmPassword, sent |-> FALSE]
            /\ UNCHANGED <<rgLoading, rgCall>>
       ELSE /\ rgError' = ""
            /\ rgLoading' = TRUE
            /\ rgCall' = [fn |-> "register", st |-> "inflight",
                          req |-> ApiRequest("/register", "POST",
                                      SomeBody([email |-> "a@b.c", password |-> password]),
                                      Undefined)]
            /\ rgLast' = [kind |-> "register", password |-> password,
                          confirm |-> confirmPassword, sent |-> TRUE]
    /\ UNCHANGED <<formPage, password, confirmPassword>>
    /\ UNCHANGED <<prompt, dsLoading, dsError, dsResult, dsCall, dsLast>>
    /\ UNCHANGED <<dsSelectedPlaylist, contextSongs, loadingPlaylistTracks, dsTracksCalls>>
    /\ UNCHANGED <<savedSongs, savingAll, saveAllResult, dsSaveCall>>
    /\ UNCHANGED <<liked, dismissed, creatingPlaylist, playlistResult, dsPlaylistCall>>
    /\ UNCHANGED <<storageVars, callbackVars, gatewayVars, swipeVars, wizardVars, createVars, tabVars>>

\* handleSubmit after its await: navigate("/login") unmounts the page, whose
\* setLoading(false) is then dropped; a failure shows its message.
RegisterSettle(resp) ==
    /\ formPage = "register"
    /\ rgCall.st = "inflight"
    /\ rgCall' = NoCall
    /\ IF ApiSettle(resp).ok
       THEN /\ formPage' = "none"
            /\ page' = RouteView
            /\ password' = ""
            /\ confirmPassword' = ""
            /\ rgLoading' = FALSE
            /\ UNCHANGED rgError
       ELSE /\ rgError' = CatchMessage(ApiSettle(resp).error, "Registration failed")
            /\ rgLoading' = FALSE
            /\ UNCHANGED <<formPage, page, password, confirmPassword>>
    /\ UNCHANGED rgLast
    /\ UNCHANGED <<prompt, dsLoading, dsError, dsResult, dsCall, dsLast>>
    /\ UNCHANGED <<token, sessionRedirect, isLoggedIn>>
    /\ UNCHANGED <<dsSelectedPlaylist, contextSongs, loadingPlaylistTracks, dsTracksCalls>>
    /\ UNCHANGED <<savedSongs, savingAll, saveAllResult, dsSaveCall>>
    /\ UNCHANGED <<liked, dismissed, creatingPlaylist, playlistResult, dsPlaylistCall>>
    /\ UNCHANGED <<callbackVars, gatewayVars, swipeVars, wizardVars, createVars, tabVars>>

\* The user leaves the page: its state is gone, and what a running request
\* brings later is set on an unmounted component, which React drops.
LeaveForm ==
    /\ formPage # "none"
    /\ formPage' = "none"
    /\ prompt' = <<>>
    /\ dsLoading' = FALSE
    /\ dsError' = ""
    /\ dsResult' = <<>>
    /\ dsCall' = NoCall
    /\ dsSelectedPlaylist' = Null
    /\ contextSongs' = <<>>
    /\ loadingPlaylistTracks' = FALSE
    /\ dsTracksCalls' = <<>>
    /\ savedSongs' = {}
    /\ savingAll' = FALSE
    /\ saveAllResult' = Null
    /\ dsSaveCall' = NoCall
    /\ liked' = {}
    /\ dismissed' = {}
    /\ creatingPlaylist' = FALSE
    /\ playlistResult' = Null
    /\ dsPlaylistCall' = NoCall
    /\ password' = ""
    /\ confirmPassword' = ""
    /\ rgLoading' = FALSE
    /\ rgError' = ""
    /\ rgCall' = NoCall
    /\ UNCHANGED <<dsLast, rgLast>>
    /\ UNCHANGED <<storageVars, callbackVars, gatewayVars, swipeVars, wizardVars, createVars, tabVars>>

FormInit ==
    /\ token \in StoredTokens
    /\ isLoggedIn = Truthy(token)
    /\ page = IF isLoggedIn THEN "home" ELSE "login"
    /\ CallbackIdle
    /\ GatewayIdle
    /\ SwipeIdle
    /\ WizardIdle
    /\ FormIdle
    /\ CreateIdle
    /\ TabsIdle

FormNext ==
    \/ \E pg \in {"discover", "register"} : OpenForm(pg)
    \/ \E n \in 0..MaxPromptLen : \E p \in [1..n -> {" ", "\n", "a"}] : SetPrompt(p)
    \/ HandleDiscover
    \/ \E r \in WzResponses : DiscoverSettle(r, <<>>)
    \/ \E p \in Passwords : SetPassword(p)
    \/ \E p \in Passwords : SetConfirmPassword(p)
    \/ HandleSubmit
    \/ \E r \in WzResponses : RegisterSettle(r)
    \/ LeaveForm

SpecForms == FormInit /\ [][FormNext]_vars

----------------------------------------------------------------------------
(* DiscoverPage: the playlist context and save-all, and the like/dismiss    *)
(* variant of the page with its playlist creation.  The picker lists the    *)
(* user's playlists while no playlist is selected; a URI is the sequence of *)
(* its characters, and null and "" are both the empty sequence (every       *)
(* reader of the URI and of the id tests them for truthiness only).         *)

MaxSongs == 2
MaxTrackCalls == 2

\* uri.split(":")
RECURSIVE Split(_)
Split(uri) ==
    IF \A i \in 1..Len(uri) : uri[i] # ":"
    THEN <<uri>>
    ELSE LET i == CHOOSE j \in 1..Len(uri) :
                      uri[j] = ":" /\ \A k \in 1..(j - 1) : uri[k] # ":"
         IN  <<SubSeq(uri, 1, i - 1)>> \o Split(SubSeq(uri, i + 1, Len(uri)))

ExtractTrackIdWhole(uri) == uri

\* extractTrackId
ExtractTrackId(uri) ==
    IF uri = <<>>
    THEN <<>>
    ELSE IF Len(Split(uri)) = 3 THEN Split(uri)[3] ELSE <<>>

\* selectPlaylist up to its await; the picker is there only while no playlist
\* is selected.
SelectPlaylist(pl) ==
    /\ formPage = "discover"
    /\ dsSelectedPlaylist = Null
    /\ Len(dsTracksCalls) < MaxTrackCalls
    /\ dsSelectedPlaylist' = pl
    /\ loadingPlaylistTracks' = TRUE
    /\ dsError' = ""
    /\ dsTracksCalls' = Append(dsTracksCalls, pl)
    /\ UNCHANGED <<formPage, prompt, dsLoading, dsResult, dsCall, dsLast, contextSongs>>
    /\ UNCHANGED <<savedSongs, savingAll, saveAllResult, dsSaveCall>>
    /\ UNCHANGED <<password, confirmPassword, rgLoading, rgError, rgCall, rgLast>>
    /\ UNCHANGED <<liked, dismissed, creatingPlaylist, playlistResult, dsPlaylistCall>>
    /\ UNCHANGED <<storageVars, callbackVars, gatewayVars, swipeVars, wizardVars, createVars, tabVars>>

\* selectPlaylist after its await: setContextSongs(data.songs), or catch; finally.
\* Reading data.songs of a null body throws into the catch.
TracksSettle(k, resp, songs) ==
    /\ formPage = "discover"
    /\ k \in DOMAIN dsTracksCalls
    /\ dsTracksCalls' = [i \in 1..(Len(dsTracksCalls) - 1) |->
                            IF i < k THEN dsTracksCalls[i] ELSE dsTracksCalls[i + 1]]
    /\ LET out == ApiSettle(resp) IN
         IF out.ok /\ out.value.json = "object"
         THEN /\ contextSongs' = songs
              /\ UNCHANGED <<dsError, dsSelectedPlaylist>>
         ELSE /\ dsError' = IF out.ok THEN NullReadMessage
                            ELSE CatchMessage(out.error,
                                     "Playlist-Songs konnten nicht geladen werden")
              /\ dsSelectedPlaylist' = Null
              /\ UNCHANGED contextSongs
    /\ loadingPlaylistTracks' = FALSE
    /\ UNCHANGED <<formPage, prompt, dsLoading, dsResult, dsCall, dsLast>>
    /\ UNCHANGED <<savedSongs, savingAll, saveAllResult, dsSaveCall>>
    /\ UNCHANGED <<password, confirmPassword, rgLoading, rgError, rgCall, rgLast>>
    /\ UNCHANGED <<liked, dismissed, creatingPlaylist, playlistResult, dsPlaylistCall>>
    /\ UNCHANGED <<storageVars, callbackVars, gatewayVars, swipeVars, wizardVars, createVars, tabVars>>

\* clearPlaylistContext; its button is on the chip of the selected playlist,
\* also while the playlist's tracks are loading.
ClearPlaylistContext ==
    /\ formPage = "discover"
    /\ dsSelectedPlaylist # Null
    /\ contextSongs' = <<>>
    /\ dsSelectedPlaylist' = Null
    /\ UNCHANGED <<formPage, prompt, dsLoading, dsError, dsResult, dsCall, dsLast>>
    /\ UNCHANGED <<loadingPlaylistTracks, dsTracksCalls>>
    /\ UNCHANGED <<savedSongs, savingAll, saveAllResult, dsSaveCall>>
    /\ UNCHANGED <<password, confirmPassword, rgLoading, rgError, rgCall, rgLast>>
    /\ UNCHANGED <<liked, dismissed, creatingPlaylist, playlistResult, dsPlaylistCall>>
    /\ UNCHANGED <<storageVars, callbackVars, gatewayVars, swipeVars, wizardVars, createVars, tabVars>>

\* saveAllSongs up to its await.  Its button is rendered with a result and
\* without a save-all summary, and is disabled while savingAll.
SaveAllSongs ==
    /\ formPage = "discover"
    /\ dsResult # <<>>
    /\ ~Truthy(saveAllResult)
    /\ ~savingAll
    /\ LET ids == [i \in 1..Len(dsResult[1]) |-> ExtractTrackId(dsResult[1][i])]
           trackIds == SelectSeq(ids, LAMBDA id : id # <<>>)
       IN  IF Len(trackIds) = 0
           THEN UNCHANGED <<savingAll, dsError, dsSaveCall>>
           ELSE /\ savingAll' = TRUE
                /\ dsError' = ""
                /\ dsSaveCall' = [fn |-> "saveTracks", st |-> "inflight",
                                  req |-> ApiRequest("/save-tracks", "POST",
                                              SomeBody([track_ids |-> trackIds]),
                                              IF Truthy(token) THEN token ELSE ""),
                                  songs |-> dsResult[1]]
    /\ UNCHANGED <<formPage, prompt, dsLoading, dsResult, dsCall, dsLast>>
    /\ UNCHANGED <<dsSelectedPlaylist, contextSongs, loadingPlaylistTracks, dsTracksCalls>>
    /\ UNCHANGED <<savedSongs, saveAllResult>>
    /\ UNCHANGED <<password, confirmPassword, rgLoading, rgError, rgCall, rgLast>>
    /\ UNCHANGED <<liked, dismissed, creatingPlaylist, playlistResult, dsPlaylistCall>>
    /\ UNCHANGED <<storageVars, callbackVars, gatewayVars, swipeVars, wizardVars, createVars, tabVars>>

\* saveAllSongs after its await: the summary and a mark on every index of the
\* result its closure holds, or catch; finally.
SaveAllSettle(resp) ==
    /\ formPage = "discover"
    /\ dsSaveCall.st = "inflight"
    /\ dsSaveCall' = NoCall
    /\ LET out == ApiSettle(resp) IN
         IF out.ok
         THEN /\ saveAllResult' = IF out.value.json = "object" THEN "summary" ELSE Null
              /\ savedSongs' = 0..(Len(dsSaveCall.songs) - 1)
              /\ UNCHANGED dsError
         ELSE /\ dsError' = CatchMessage(out.error,
                                 "Songs konnten nicht gespeichert werden")
              /\ UNCHANGED <<saveAllResult, savedSongs>>
    /\ savingAll' = FALSE
    /\ UNCHANGED <<formPage, prompt, dsLoading, dsResult, dsCall, dsLast>>
    /\ UNCHANGED <<dsSelectedPlaylist, contextSongs, loadingPlaylistTracks, dsTracksCalls>>
    /\ UNCHANGED <<password, confirmPassword, rgLoading, rgError, rgCall, rgLast>>
    /\ UNCHANGED <<liked, dismissed, creatingPlaylist, playlistResult, dsPlaylistCall>>
    /\ UNCHANGED <<storageVars, callbackVars, gatewayVars, swipeVars, wizardVars, createVars, tabVars>>

ToggleLikeOnly(idx) ==
    /\ formPage = "likes"
    /\ dsResult # <<>>
    /\ idx \in 0..(Len(dsResult[1]) - 1)
    /\ liked' = IF idx \in liked THEN liked \ {idx} ELSE liked \cup {idx}
    /\ UNCHANGED <<formPage, prompt, dsLoading, dsError, dsResult, dsCall, dsLast>>
    /\ UNCHANGED <<dsSelectedPlaylist, contextSongs, loadingPlaylistTracks, dsTracksCalls>>
    /\ UNCHANGED <<savedSongs, savingAll, saveAllResult, dsSaveCall>>
    /\ UNCHANGED <<dismissed, creatingPlaylist, playlistResult, dsPlaylistCall>>
    /\ UNCHANGED <<password, confirmPassword, rgLoading, rgError, rgCall, rgLast>>
    /\ UNCHANGED <<storageVars, callbackVars, gatewayVars, swipeVars, wizardVars, createVars, tabVars>>

\* toggleLike: the updater of liked adds the index, and then queues the
\* removal from dismissed, or removes the index.
ToggleLike(idx) ==
    /\ formPage = "likes"
    /\ dsResult # <<>>
    /\ idx \in 0..(Len(dsResult[1]) - 1)
    /\ IF idx \in liked
       THEN /\ liked' = liked \ {idx}
            /\ UNCHANGED dismissed
       ELSE /\ liked' = liked \cup {idx}
            /\ dismissed' = dismissed \ {idx}
    /\ UNCHANGED <<formPage, prompt, dsLoading, dsError, dsResult, dsCall, dsLast>>
    /\ UNCHANGED <<dsSelectedPlaylist, contextSongs, loadingPlaylistTracks, dsTracksCalls>>
    /\ UNCHANGED <<savedSongs, savingAll, saveAllResult, dsSaveCall>>
    /\ UNCHANGED <<creatingPlaylist, playlistResult, dsPlaylistCall>>
    /\ UNCHANGED <<password, confirmPassword, rgLoading, rgError, rgCall, rgLast>>
    /\ UNCHANGED <<storageVars, callbackVars, gatewayVars, swipeVars, wizardVars, createVars, tabVars>>

\* toggleDismiss, the mirror image
ToggleDismiss(idx) ==
    /\ formPage = "likes"
    /\ dsResult # <<>>
    /\ idx \in 0..(Len(dsResult[1]) - 1)
    /\ IF idx \in dismissed
       THEN /\ dismissed' = dismissed \ {idx}
            /\ UNCHANGED liked
       ELSE /\ dismissed' = dismissed \cup {idx}
            /\ liked' = liked \ {idx}
    /\ UNCHANGED <<formPage, prompt, dsLoading, dsError, dsResult, dsCall, dsLast>>
    /\ UNCHANGED <<dsSelectedPlaylist, contextSongs, loadingPlaylistTracks, dsTracksCalls>>
    /\ UNCHANGED <<savedSongs, savingAll, saveAllResult, dsSaveCall>>
    /\ UNCHANGED <<creatingPlaylist, playlistResult, dsPlaylistCall>>
    /\ UNCHANGED <<password, confirmPassword, rgLoading, rgError, rgCall, rgLast>>
    /\ UNCHANGED <<storageVars, callbackVars, gatewayVars, swipeVars, wizardVars, createVars, tabVars>>

\* handleCreatePlaylist up to its await.  Its button is rendered with a result,
\* a liked song and no playlist result, and is disabled while creatingPlaylist.
\* Of the body only track_uris is kept (name and description are texts).
HandleCreatePlaylist ==
    /\ formPage = "likes"
    /\ dsResult # <<>>
    /\ liked # {}
    /\ ~Truthy(playlistResult)
    /\ ~creatingPlaylist
    /\ LET likedSongs == SelectSeq([i \in 1..Len(dsResult[1]) |-> <<i - 1, dsResult[1][i]>>],
                                   LAMBDA s : s[1] \in liked)
           uris == SelectSeq([i \in 1..Len(likedSongs) |-> likedSongs[i][2]],
                             LAMBDA u : u # <<>>)
       IN  IF Len(uris) = 0
           THEN /\ dsError' = "Waehle mindestens einen Song aus!"
                /\ UNCHANGED <<creatingPlaylist, dsPlaylistCall>>
           ELSE /\ creatingPlaylist' = TRUE
                /\ dsError' = ""
                /\ dsPlaylistCall' = [fn |-> "createPlaylist", st |-> "inflight",
                                      req |-> ApiRequest("/create-playlist", "POST",
                                                  SomeBody([track_uris |-> uris]),
                                                  IF Truthy(token) THEN token ELSE "")]
    /\ UNCHANGED <<formPage, prompt, dsLoading, dsResult, dsCall, dsLast>>
    /\ UNCHANGED <<dsSelectedPlaylist, contextSongs, loadingPlaylistTracks, dsTracksCalls>>
    /\ UNCHANGED <<savedSongs, savingAll, saveAllResult, dsSaveCall>>
    /\ UNCHANGED <<liked, dismissed, playlistResult>>
    /\ UNCHANGED <<password, confirmPassword, rgLoading, rgError, rgCall, rgLast>>
    /\ UNCHANGED <<storageVars, callbackVars, gatewayVars, swipeVars, wizardVars, createVars, tabVars>>

\* handleCreatePlaylist after its await: setPlaylistResult(data), or catch; finally.
CreatePlaylistSettle(resp) ==
    /\ formPage = "likes"
    /\ dsPlaylistCall.st = "inflight"
    /\ dsPlaylistCall' = NoCall
    /\ LET out == ApiSettle(resp) IN
         IF out.ok
         THEN /\ playlistResult' = IF out.value.json = "object" THEN "playlist" ELSE Null
              /\ UNCHANGED dsError
         ELSE /\ dsError' = CatchMessage(out.error,
                                 "Playlist konnte nicht erstellt werden")
              /\ UNCHANGED playlistResult
    /\ creatingPlaylist' = FALSE
    /\ UNCHANGED <<formPage, prompt, dsLoading, dsResult, dsCall, dsLast>>
    /\ UNCHANGED <<dsSelectedPlaylist, contextSongs, loadingPlaylistTracks, dsTracksCalls>>
    /\ UNCHANGED <<savedSongs, savingAll, saveAllResult, dsSaveCall>>
    /\ UNCHANGED <<liked, dismissed>>
    /\ UNCHANGED <<password, confirmPassword, rgLoading, rgError, rgCall, rgLast>>
    /\ UNCHANGED <<storageVars, callbackVars, gatewayVars, swipeVars, wizardVars, createVars, tabVars>>

DiscoverNext ==
    \/ \E pg \in {"discover", "likes"} : OpenForm(pg)
    \/ SetPrompt(<<"a">>)
    \/ HandleDiscover
    \/ \E r \in WzResponses : \E n \in 0..MaxSongs :
          \E songs \in [1..n -> {<<>>, <<"a", ":", "b">>, <<"a", ":", "b", ":">>,
                                  <<"a", ":", "b", ":", "c">>,
                                  <<"a", ":", "b", ":", "c", ":", "d">>}] :
             DiscoverSettle(r, songs)
    \/ \E pl \in {"P1", "P2"} : SelectPlaylist(pl)
    \/ \E k \in 1..MaxTrackCalls : \E r \in WzResponses :
          \E songs \in {<<>>, <<"T1">>} : TracksSettle(k, r, songs)
    \/ ClearPlaylistContext
    \/ SaveAllSongs
    \/ \E r \in WzResponses : SaveAllSettle(r)
    \/ \E idx \in 0..(MaxSongs - 1) : ToggleLike(idx)
    \/ \E idx \in 0..(MaxSongs - 1) : ToggleDismiss(idx)
    \/ HandleCreatePlaylist
    \/ \E r \in WzResponses : CreatePlaylistSettle(r)
    \/ LeaveForm

SpecDiscover == FormInit /\ [][DiscoverNext]_vars

----------------------------------------------------------------------------
(* GymPlaylistPage with the create button (SpecCreate): the mount effect    *)
(* lists the playlists, handleCreate asks for the playlist.                 *)

\* The page is opened: useEffect(() => { getUserPlaylists().then(setPlaylists) }, [])
OpenCreate ==
    /\ ~crMounted
    /\ crInst < MaxMounts
    /\ Len(crCalls) < MaxWzCalls
    /\ crMounted' = TRUE
    /\ crInst' = crInst + 1
    /\ crCalls' = Append(crCalls, WzCall(crInst + 1, "playlists", Null))
    /\ UNCHANGED <<crPlaylists, selectedPlaylists, crLoading, crResult, unhandled>>
    /\ UNCHANGED <<storageVars, callbackVars, gatewayVars, swipeVars, wizardVars, formVars, tabVars>>

\* getUserPlaylists() settles (res.playlists of a null body throws);
\* .then(setPlaylists) has a handler for the value only, so a rejection
\* passes through the chain to nobody.
PlaylistsArrive(k, resp) ==
    LET out == IF ApiSettle(resp).ok /\ ApiSettle(resp).value.json = "null"
               THEN Thrown(JsError("TypeError", NullReadMessage))
               ELSE ApiSettle(resp)
    IN
    /\ k \in DOMAIN crCalls
    /\ crCalls[k].fn = "playlists"
    /\ crCalls' = RemoveAt(crCalls, k)
    /\ IF out.ok
       THEN /\ crPlaylists' = IF crMounted /\ crCalls[k].inst = crInst
                              THEN SourceIds ELSE crPlaylists
            /\ UNCHANGED unhandled
       ELSE /\ unhandled' = Append(unhandled, out.error.message)
            /\ UNCHANGED crPlaylists
    /\ UNCHANGED <<crMounted, crInst, selectedPlaylists, crLoading, crResult>>
    /\ UNCHANGED <<storageVars, callbackVars, gatewayVars, swipeVars, wizardVars, formVars, tabVars>>

\* handleSelect(id)
HandleSelect(id) ==
    /\ crMounted
    /\ id \in crPlaylists
    /\ selectedPlaylists' = IF id \in selectedPlaylists
                            THEN selectedPlaylists \ {id}
                            ELSE selectedPlaylists \cup {id}
    /\ UNCHANGED <<crMounted, crInst, crPlaylists, crLoading, crResult, crCalls, unhandled>>
    /\ UNCHANGED <<storageVars, callbackVars, gatewayVars, swipeVars, wizardVars, formVars, tabVars>>

\* handleCreate up to its await; the button is disabled while loading or with
\* nothing selected.
HandleCreate ==
    /\ crMounted
    /\ ~crLoading /\ selectedPlaylists # {}
    /\ Len(crCalls) < MaxWzCalls
    /\ crLoading' = TRUE
    /\ crResult' = Null
    /\ crCalls' = Append(crCalls, WzCall(crInst, "create", selectedPlaylists))
    /\ UNCHANGED <<crMounted, crInst, crPlaylists, selectedPlaylists, unhandled>>
    /\ UNCHANGED <<storageVars, callbackVars, gatewayVars, swipeVars, wizardVars, formVars, tabVars>>

\* handleCreate after its await: createGymPlaylist gave a value or threw an
\* error, either with or without a message; the message or the fallback text
\* is shown; then setLoading(false).
CreateSettle(k, out) ==
    /\ k \in DOMAIN crCalls
    /\ crCalls[k].fn = "create"
    /\ crCalls' = RemoveAt(crCalls, k)
    /\ IF crMounted /\ crCalls[k].inst = crInst
       THEN /\ crResult' = IF out.ok
                           THEN OrElse(out.message, "Playlist erstellt!")
                           ELSE OrElse(out.message, "Fehler beim Erstellen der Playlist.")
            /\ crLoading' = FALSE
       ELSE UNCHANGED <<crResult, crLoading>>
    /\ UNCHANGED <<crMounted, crInst, crPlaylists, selectedPlaylists, unhandled>>
    /\ UNCHANGED <<storageVars, callbackVars, gatewayVars, swipeVars, wizardVars, formVars, tabVars>>

\* The user leaves the page: its state is gone, its requests stay.
LeaveCreate ==
    /\ crMounted
    /\ crMounted' = FALSE
    /\ crPlaylists' = {}
    /\ selectedPlaylists' = {}
    /\ crLoading' = FALSE
    /\ crResult' = Null
    /\ UNCHANGED <<crInst, crCalls, unhandled>>
    /\ UNCHANGED <<storageVars, callbackVars, gatewayVars, swipeVars, wizardVars, formVars, tabVars>>

CreateInit ==
    /\ token \in StoredTokens
    /\ isLoggedIn = Truthy(token)
    /\ page = IF isLoggedIn THEN "home" ELSE "login"
    /\ CallbackIdle
    /\ GatewayIdle
    /\ SwipeIdle
    /\ WizardIdle
    /\ FormIdle
    /\ CreateIdle
    /\ TabsIdle

CreateNext ==
    \/ OpenCreate
    \/ \E k \in 1..MaxWzCalls, r \in WzResponses : PlaylistsArrive(k, r)
    \/ \E id \in SourceIds : HandleSelect(id)
    \/ HandleCreate
    \/ \E k \in 1..MaxWzCalls, ok \in BOOLEAN, msg \in {Undefined, "Gym playlist ready"} :
          CreateSettle(k, [ok |-> ok, message |-> msg])
    \/ LeaveCreate

SpecCreate == CreateInit /\ [][CreateNext]_vars

----------------------------------------------------------------------------
(* Two tabs of one browser profile (SpecTabs): each tab has its own App,    *)
(* pages and sessionStorage; localStorage, with the token, is the profile's.*)

\* A tab loads the application: App reads the token.
TabLoad(t) ==
    /\ tabLoggedIn' = [tabLoggedIn EXCEPT ![t] = Truthy(token)]
    /\ tabPage' = [tabPage EXCEPT ![t] = IF Truthy(token) THEN "home" ELSE "login"]
    /\ tabCred' = [tabCred EXCEPT ![t] = token]
    /\ UNCHANGED <<tabSent, storageVars>>
    /\ UNCHANGED <<callbackVars, gatewayVars, swipeVars, wizardVars, formVars, createVars>>

\* The provider sends the tab back to /callback, a route that is not guarded.
TabCallback(t) ==
    /\ tabPage[t] \in {"login", "home"}
    /\ tabPage' = [tabPage EXCEPT ![t] = "callback"]
    /\ UNCHANGED <<tabLoggedIn, tabCred, tabSent, storageVars>>
    /\ UNCHANGED <<callbackVars, gatewayVars, swipeVars, wizardVars, formVars, createVars>>

\* CallbackPage, exchange success: localStorage.setItem("token", access_token)
\* and window.location.replace("/"), which loads the application anew.  The
\* backend issues "jwt1" and "jwt2" to the two accounts that log in.
TabLoginSuccess(t, tok) ==
    /\ tabPage[t] = "callback"
    /\ token' = StorageString(tok)
    /\ tabLoggedIn' = [tabLoggedIn EXCEPT ![t] = Truthy(token')]
    /\ tabPage' = [tabPage EXCEPT ![t] = IF Truthy(token') THEN "home" ELSE "login"]
    /\ tabCred' = [tabCred EXCEPT ![t] = token']
    /\ UNCHANGED <<tabSent, sessionRedirect, isLoggedIn, page>>
    /\ UNCHANGED <<callbackVars, gatewayVars, swipeVars, wizardVars, formVars, createVars>>

\* HomePage.handleLogout: localStorage.removeItem("token"); navigate("/login"),
\* where the /login route chooses by the isLoggedIn of the tab's App.
TabLogout(t) ==
    /\ tabPage[t] = "home"
    /\ token' = Null
    /\ tabPage' = [tabPage EXCEPT ![t] = IF tabLoggedIn[t] THEN "home" ELSE "login"]
    /\ tabCred' = [tabCred EXCEPT ![t] = Null]
    /\ UNCHANGED <<tabLoggedIn, tabSent, sessionRedirect, isLoggedIn, page>>
    /\ UNCHANGED <<callbackVars, gatewayVars, swipeVars, wizardVars, formVars, createVars>>

\* getSwipeDeck / saveTrack called by a page of the tab:
\* const token = localStorage.getItem("token") || ""
TabRequest(t) ==
    /\ tabPage[t] = "home"
    /\ tabSent' = [tabSent EXCEPT ![t] = OrElse(token, "")]
    /\ UNCHANGED <<tabPage, tabLoggedIn, tabCred, storageVars>>
    /\ UNCHANGED <<callbackVars, gatewayVars, swipeVars, wizardVars, formVars, createVars>>

TabsInit ==
    /\ token \in StoredTokens
    /\ isLoggedIn = Truthy(token)
    /\ page = IF isLoggedIn THEN "home" ELSE "login"
    /\ CallbackIdle
    /\ GatewayIdle
    /\ SwipeIdle
    /\ WizardIdle
    /\ FormIdle
    /\ CreateIdle
    /\ TabsIdle

TabsNext ==
    \/ \E t \in Tabs : TabLoad(t)
    \/ \E t \in Tabs : TabCallback(t)
    \/ \E t \in Tabs, tok \in {"jwt1", "jwt2"} : TabLoginSuccess(t, tok)
    \/ \E t \in Tabs : TabLogout(t)
    \/ \E t \in Tabs : TabRequest(t)

SpecTabs == TabsInit /\ [][TabsNext]_vars

----------------------------------------------------------------------------
(* Properties of the authorization callback (under SpecCallback).          *)

\* C1: for one mounted CallbackPage, however often its completion effect runs
\* with the same code, at most one POST /auth/callback is issued.
ExchangeAtMostOnce == Len(exchanges) <= 1

\* The effect ran at least twice for one mount that holds a code, and one
\* exchange was issued.
EffectRanTwiceOneExchange ==
    /\ page = "callback"
    /\ effectRuns >= 2
    /\ Len(exchanges) = 1

\* C2: the stored token changes, and the callback page is left for the
\* reloaded "/", only in the step in which an exchange that was issued for a
\* present code and no error parameter succeeds; a consent error, a missing
\* code or a failed exchange leaves the token as it was.
TokenStoredOnlyOnExchangeSuccess ==
    [][ (\/ token' # token
         \/ (page = "callback" /\ page' # "callback" /\ ~RetryOffered))
        => (/\ Truthy(searchCode)
            /\ ~Truthy(searchError)
            /\ \E i \in DOMAIN exchanges :
                  exchanges[i].st = "inflight" /\ exchanges'[i].st = "ok") ]_vars

\* The exchange failed and the token stored before the attempt is still there.
ExchangeFailedTokenKept ==
    /\ page = "callback"
    /\ token = "jwt0"
    /\ \E i \in DOMAIN exchanges : exchanges[i].st = "failed"

ExchangeUsesRecordedAddress ==
    page = "callback" =>
        \A i \in DOMAIN exchanges :
            exchanges[i].req.body[1].redirect_uri =
                IF beginAddr = Null THEN Origin \o "/callback" ELSE beginAddr

\* An exchange was sent for a handshake begun with an address other than
\* <origin>/callback.
ExchangeAfterBeginElsewhere ==
    /\ page = "callback"
    /\ exchanges # <<>>
    /\ beginAddr \notin {Null, Origin \o "/callback"}

----------------------------------------------------------------------------
(* Properties of the gateway (under SpecGateway).                          *)

RunningCalls == {c \in {gwCall, homeReq} : c.st = "inflight"}
SettledCalls == {c \in {gwLast, gwPrev} : c.fn = "settled"}

\* C5: a request of api carries the Authorization header exactly when the
\* token passed to the call is a non-empty string, the header then being
\* "Bearer <token>"; with an absent or empty token the call still makes its
\* one fetch, without the header.
BearerIffTokenGiven ==
    \A c \in RunningCalls :
        /\ c.fetches = 1
        /\ ("Authorization" \in DOMAIN c.req.headers) <=> Truthy(c.tokenArg)
        /\ Truthy(c.tokenArg) =>
              c.req.headers["Authorization"] = "Bearer " \o c.tokenArg
        /\ c.req.headers["Content-Type"] = "application/json"

\* A wrapper found no stored token, passed "", and its request is out
\* without the header.
EmptyTokenRequestSent ==
    /\ gwCall.st = "inflight"
    /\ gwCall.tokenArg = ""
    /\ DOMAIN gwCall.req.headers = {"Content-Type"}

\* C6: a call of api makes exactly one fetch, and the error a caller gets for
\* a 401 response differs from the error it gets for any other failure.
UnauthorizedIsDistinguishable ==
    \A a \in SettledCalls, b \in SettledCalls :
        /\ a.fetches = 1
        /\ (a.resp.status = 401 /\ b.resp.status # 401 /\ ~b.out.ok) =>
              (~a.out.ok /\ a.out.error # b.out.error)

\* C7: a non-success status becomes a thrown error that carries the body's
\* detail as its message and from which the status (the reason) can be told;
\* an unparsable body gives "Unknown error".
ErrorCarriesReasonAndDetail ==
    \A a \in SettledCalls :
        (a.resp.kind = "http" /\ ~ResOk(a.resp)) =>
            /\ ~a.out.ok
            /\ a.resp.body.json = "unparsable" => a.out.error.message = "Unknown error"
            /\ Truthy(a.resp.body.detail) => a.out.error.message = a.resp.body.detail
            /\ \A b \in SettledCalls :
                  (b.resp.kind = "http" /\ ~ResOk(b.resp)
                   /\ b.resp.status # a.resp.status) => a.out.error # b.out.error

\* C8: no step of api or of a wrapper changes the stored token, and the
\* step that settles a caller's request removes the token only when the
\* response was 401.
SessionChangedOnlyOnUnauthorized ==
    [][ /\ gwCall' # gwCall => token' = token
        /\ (homeReq.st = "inflight" /\ homeReq' # homeReq /\ token' # token)
              => gwLast'.resp.status = 401 ]_vars

----------------------------------------------------------------------------
(* Properties of the swipe pages (under SpecSwipe).                        *)

\* C9: the step that takes a keep decision leaves the index and the phase
\* alone, and the step in which that card's save request settles, with success
\* or with failure, raises the index by exactly one, or sets the phase to
\* "empty" when the card was the last of its deck.
KeepAdvancesOnce ==
    [][ /\ (mounted /\ Len(saves') > Len(saves)) =>
              (currentIndex' = currentIndex /\ phase' = phase)
        /\ (mounted /\ Len(saves') < Len(saves)) =>
              \E k \in DOMAIN saves :
                 /\ saves' = RemoveAt(saves, k)
                 /\ IF saves[k].idx + 1 >= saves[k].len
                    THEN phase' = "empty" /\ currentIndex' = currentIndex
                    ELSE currentIndex' = currentIndex + 1 /\ phase' = phase ]_vars

\* The first card of the deck was kept once, its save failed (nothing was
\* counted as saved or skipped) and the second card is presented.
KeepAdvancedAfterFailedSave ==
    /\ mounted /\ phase = "swiping"
    /\ Len(deck) = 2 /\ currentIndex = 1
    /\ decisions[0] = 1 /\ decisions[1] = 0
    /\ savedCount = 0 /\ skippedCount = 0
    /\ saves = <<>> /\ timers = <<>> /\ loads = <<>>

\* C10: no card of the presented deck is decided twice, and every card the
\* index has passed has had its decision taken.
EachCardDecidedOnce ==
    (mounted /\ phase \in {"swiping", "empty"}) =>
        \A j \in 0..(Len(deck) - 1) :
            /\ decisions[j] <= 1
            /\ j < currentIndex => decisions[j] >= 1

\* C11: for every card of the presented deck at most one saveTrack call is
\* issued, and none without a keep decision on that card.
SaveAtMostOncePerCard ==
    mounted =>
        \A j \in 0..(Len(deck) - 1) :
            saveReqs[j] <= 1 /\ saveReqs[j] <= decisions[j]

\* C12: the step that takes a keep decision (it issues the save request)
\* moves the flow on in that same step, to the next card or to "empty",
\* without waiting for the request to settle.
KeepAdvancesWithoutWaiting ==
    [][ (mounted /\ Len(saves') > Len(saves)) =>
            (currentIndex' = currentIndex + 1 \/ (phase # "empty" /\ phase' = "empty")) ]_vars

\* C13: when the phase is "empty" for a deck of length N, and no reload has
\* been started, savedCount + skippedCount = N.
CountsAddUpAtExhaustion ==
    (mounted /\ phase = "empty" /\ loads = <<>>) =>
        savedCount + skippedCount = Len(deck)

\* C14: the flow is exhausted after exactly N decisions on a deck of length
\* N: in "empty" every card of the deck has been decided, and while the
\* phase is "swiping" with nothing pending there is a card left to present.
ExhaustedAfterExactlyN ==
    (mounted /\ deckNo >= 1) =>
        /\ phase = "empty" => \A j \in 0..(Len(deck) - 1) : decisions[j] >= 1
        /\ (phase = "swiping" /\ saves = <<>> /\ timers = <<>>) =>
               currentIndex < Len(deck)

RetryAfterEmptyOrFailedLoad ==
    (mounted /\ loads = <<>> /\ lastLoad # NoLoad
       /\ ~(lastLoad.ok /\ lastLoad.n > 0)) => LoadControlOffered

RestartReloadsSameSource ==
    [][ /\ (mounted /\ variant = "playlist" /\ phase = "empty"
              /\ Len(loads') > Len(loads)) =>
                 loads'[Len(loads')].pl = deckSource
        /\ (mounted /\ variant = "playlist" /\ deckNo' = deckNo + 1) =>
              (currentIndex' = 0 /\ savedCount' = 0 /\ skippedCount' = 0) ]_vars

----------------------------------------------------------------------------
(* Properties of the generation wizards (under SpecWizard).                *)

\* The generate requests in flight that the mounted page issued.
OwnGenerateCalls ==
    { k \in DOMAIN wzCalls :
        wzCalls[k].fn = "generate" /\ wzCalls[k].inst = wzInst }

\* C19: a step in which the mounted wizard leaves "generating" is the step in
\* which its generate request settles, and it leaves the step indicator as it
\* was: no tick of the interval, at whatever value of the indicator, moves
\* the wizard to "done" or to "select".
LeavesGeneratingOnlyOnResolution ==
    [][ (wzMounted /\ wzMounted' /\ step = "generating" /\ step' # "generating") =>
          /\ generatingStep' = generatingStep
          /\ \E k \in OwnGenerateCalls : wzCalls' = RemoveAt(wzCalls, k) ]_vars

\* The indicator has reached its last value and the wizard is still
\* generating, its request in flight.
IndicatorAtLastStillGenerating ==
    /\ wzMounted /\ step = "generating"
    /\ generatingStep = GeneratingSteps - 1
    /\ OwnGenerateCalls # {}

\* C20: while the mounted wizard is in "generating" exactly one generate
\* request of it is in flight, and in "select" and "done" none is: a stay in
\* "generating" issues one request and no request is issued in "generating"
\* or "done".
OneGenerateRequestPerStay ==
    wzMounted =>
        IF step = "generating"
        THEN Cardinality(OwnGenerateCalls) = 1
        ELSE OwnGenerateCalls = {}

\* The Gym wizard is generating for one selected playlist, a tick has
\* passed, and its one request is in flight.
GeneratingWithOneRequest ==
    /\ wzMounted /\ wizard = "gym" /\ step = "generating"
    /\ generatingStep = 1 /\ selectedIds = {"S1"}
    /\ \E k \in OwnGenerateCalls : wzCalls[k].arg = {"S1"}

\* C21: the step in which the generate request of the mounted wizard settles
\* with a failure ends in "select", with selectedIds equal to the set the
\* request was issued with, and with the message of the error api threw as
\* the displayed error.
FailedGenerateKeepsSelection ==
    [][ (wzMounted /\ wzMounted' /\ step = "generating" /\ step' # "generating"
           /\ ~wzLast'.ok) =>
          /\ step' = "select"
          /\ wzError' = wzLast'.error.message
          /\ \E k \in OwnGenerateCalls :
                wzCalls' = RemoveAt(wzCalls, k) /\ selectedIds' = wzCalls[k].arg ]_vars

\* Daily Drive is back in "select" after a 401 on generate: the detail of
\* the response is displayed and the one selected show is still selected.
BackInSelectAfterFailedGenerate ==
    /\ wzMounted /\ wizard = "daily" /\ step = "select"
    /\ ~wzLast.ok /\ wzLast.error.message = "Not authenticated"
    /\ wzError = "Not authenticated"
    /\ selectedIds = {"S1"}

\* C22: the step that takes the mounted wizard out of "done" ends in
\* "select"; in Daily Drive it leaves the selection empty, and in the Gym
\* wizard it leaves the selection as it was when auto-refresh is on.
DoAgainReturnsToSelect ==
    [][ (wzMounted /\ wzMounted' /\ step = "done" /\ step' # "done") =>
          /\ step' = "select"
          /\ wizard = "daily" => selectedIds' = {}
          /\ (wizard = "gym" /\ autoRefresh) => selectedIds' = selectedIds ]_vars

\* The Gym wizard is back in "select" after a generated playlist, with
\* auto-refresh on and its one selected playlist still selected.
GymBackInSelectWithSelection ==
    /\ wzMounted /\ wizard = "gym" /\ step = "select"
    /\ wzLast.ok /\ wzLast.value.json = "object"
    /\ result = Null /\ autoRefresh
    /\ selectedIds = {"S1"}

----------------------------------------------------------------------------
(* Properties of the forms (under SpecForms).                               *)

\* C23: validation failures are handled locally and never sent: submitting a
\* discovery prompt that is empty or only whitespace issues no POST /discover,
\* and submitting a registration whose confirmation differs from the password
\* issues no POST /register and shows a validation message.
ValidationNeverSent ==
    LET Blank(p) == \A i \in 1..Len(p) : p[i] \in Whitespace IN
    /\ (dsLast.kind = "discover" /\ Blank(dsLast.prompt)) => ~dsLast.sent
    /\ dsCall.st = "inflight" =>
          (~Blank(dsLast.prompt) /\ ~Blank(dsCall.req.body[1].prompt))
    /\ (rgLast.kind = "register" /\ rgLast.password # rgLast.confirm) =>
          /\ ~rgLast.sent
          /\ formPage = "register" => rgError = "Passwords do not match"
    /\ rgCall.st = "inflight" => rgLast.password = rgLast.confirm

\* A whitespace-only prompt was submitted and a mismatching registration was
\* submitted; neither was sent, and the registration form shows the message.
BlankAndMismatchSubmitted ==
    /\ dsLast = [kind |-> "discover", prompt |-> <<" ", "\n">>, sent |-> FALSE]
    /\ rgLast = [kind |-> "register", password |-> "pw", confirm |-> "pw ",
                 sent |-> FALSE]
    /\ formPage = "register"
    /\ rgError = "Passwords do not match"
    /\ rgCall = NoCall

----------------------------------------------------------------------------
(* Properties of the swipe deck's late completions (under SpecSwipe).       *)

\* C24: once the user has navigated away from a view (the page is unmounted,
\* or the playlist-scoped page is back at its playlist list), the result of a
\* deck load or save request that was in flight is never applied to the
\* view's state.
NoResultAfterNavigatingAway ==
    [][ ((~mounted \/ (variant = "playlist" /\ phase = "pick-playlist"))
           /\ (Len(saves') < Len(saves) \/ Len(loads') < Len(loads))) =>
           UNCHANGED <<phase, currentIndex, deck, swError, savedCount,
                       skippedCount>> ]_vars

\* C28: the swipe flow takes only the transitions of its state machine: the
\* exhausted phase is entered only from the presenting phase, by the decision
\* on the last card, and a save completion or delayed swipe that arrives after
\* the user has left the presenting phase (for the playlist list or for a new
\* deck load) changes neither the phase nor the index.
OnlyStateMachineTransitions ==
    [][ /\ (mounted /\ variant = "playlist" /\ phase # "empty" /\ phase' = "empty") =>
              (phase = "swiping" /\ currentIndex + 1 = Len(deck))
        /\ (mounted /\ variant = "playlist" /\ phase \in {"pick-playlist", "loading"}
              /\ (Len(saves') < Len(saves) \/ Len(timers') < Len(timers))) =>
              UNCHANGED <<phase, currentIndex>> ]_vars

\* C29: in every reachable state of the playlist-scoped swipe flow, phase =
\* swiping implies that the deck is non-empty and 0 <= currentIndex < deck
\* length, so that a current card exists.
SwipingHasCurrentCard ==
    (mounted /\ variant = "playlist" /\ phase = "swiping") =>
        /\ deck # <<>>
        /\ 0 <= currentIndex /\ currentIndex < Len(deck)
        /\ currentTrack # Null

\* C30: counters and index reflect only decisions taken on the deck they
\* belong to: once loadDeck has started for a new deck, no save completion and
\* no delayed swipe whose closure was captured on an earlier deck changes
\* savedCount, skippedCount or currentIndex.
CountersOfThisDeckOnly ==
    [][ LET OfEarlierDeck(c) == c.deckNo # deckNo \/ phase = "loading" IN
        (mounted /\ variant = "playlist" /\
           \/ \E k \in DOMAIN saves :
                 saves' = RemoveAt(saves, k) /\ OfEarlierDeck(saves[k])
           \/ \E k \in DOMAIN timers :
                 timers' = RemoveAt(timers, k) /\ OfEarlierDeck(timers[k].c)) =>
           UNCHANGED <<savedCount, skippedCount, currentIndex>> ]_vars

----------------------------------------------------------------------------
(* Properties of the create-button page (under SpecCreate).                 *)

\* C25: every failure of a gateway call is caught inside the flow: no
\* rejected request of a page escapes as an unhandled rejection.
NoUnhandledRejection == unhandled = <<>>

----------------------------------------------------------------------------
(* Properties of two tabs (under SpecTabs).                                 *)

\* C26: two tabs share no mutable state: a wrapper call of a tab attaches the
\* credential that this tab logged in or loaded with, whatever the other tab
\* has done since.
TabAttachesOwnCredential ==
    [][ \A t \in Tabs :
           tabSent'[t] # tabSent[t] => tabSent'[t] = OrElse(tabCred[t], "") ]_vars

----------------------------------------------------------------------------
(* Properties of the root view's routing (under SpecGatewayLive).           *)

\* C27: a missing credential forces re-login: once no token is stored, the
\* protected page does not stay displayed; the application settles on the
\* login page and remains there (no step of this specification logs in).
MissingCredentialForcesLogin == (~Truthy(token)) ~> [](page = "login")

----------------------------------------------------------------------------
(* Further properties of the generation wizards (under SpecWizard).         *)

\* C31: no partial artifact is left implied as complete: while the step is
\* "done" the page holds a result, that of a generate request that succeeded,
\* and while the step is "select" it holds none.
DoneHoldsResult ==
    /\ (wzMounted /\ step = "done") => (wzLast.ok /\ result # Null)
    /\ (wzMounted /\ step = "select") => result = Null

----------------------------------------------------------------------------
(* Further properties of the home page (under SpecGateway).                 *)

\* C32: when the GET /me of the home page succeeds the token is left as it
\* is; when it fails, for whatever reason, the token is removed and the user
\* is on the login page.  (A settling request is told from a reload or a
\* logout by the record it adds to the gateway's history.)
ProfileFailureLogsOut ==
    [][ /\ (homeReq.st = "inflight" /\ homeReq'.fn = "settled") =>
              (token' = token /\ page' = page)
        /\ (page = "home" /\ homeReq.st = "inflight" /\ homeReq' = NoCall
              /\ gwPrev' = gwLast /\ gwLast'.fn = "settled" /\ gwLast'.st = "failed"
              /\ (gwLast' # gwLast \/ gwPrev' # gwPrev)) =>
              (token' = Null /\ page' = "login") ]_vars

\* C33: for the Gym auto-refresh toggle, once no PUT /gym-playlist/auto-refresh
\* is in flight the local autoRefresh flag equals the value the backend holds,
\* for every sequence of toggles and of request outcomes (stated for the first
\* mount of the page, which starts with the two values equal).
AutoRefreshMatchesBackend ==
    (wzMounted /\ wizard = "gym" /\ wzInst = 1
       /\ \A k \in DOMAIN wzCalls : wzCalls[k].fn # "toggle")
    => autoRefresh = srvAutoRefresh

----------------------------------------------------------------------------
(* DiscoverPage: the playlist context                                       *)

\* C34: in the prompt-discovery page, whenever no playlist is selected as
\* context the list of context songs is empty, also when the user removes
\* the playlist while its track list is still being fetched.
NoContextWithoutPlaylist ==
    (formPage = "discover" /\ dsSelectedPlaylist = Null) => contextSongs = <<>>

\* C35: in the prompt-discovery page, the saved marks and the save-all
\* summary refer to the result list displayed: a save-all request that
\* resolves changes them only when the displayed result is the list the
\* request was issued for.
SavedMarksOfDisplayedResult ==
    [][ (formPage' = "discover" /\ dsSaveCall.st = "inflight" /\ dsSaveCall' = NoCall
           /\ (savedSongs' # savedSongs \/ saveAllResult' # saveAllResult))
        => dsResult = <<dsSaveCall.songs>> ]_vars

\* C36: save-all sends exactly the ids of the displayed songs whose URI has
\* three colon-separated parts (the third part, when it is not empty) and
\* sends nothing when there is no such id; marks are added only by a request
\* that succeeded, and a failed request leaves the marks as they were.
SaveAllSendsExtractedIds ==
    [][ LET colons(u) == {i \in 1..Len(u) : u[i] = ":"}
            idOf(u) == IF Cardinality(colons(u)) = 2
                       THEN SubSeq(u, 1 + CHOOSE i \in colons(u) :
                                              \A j \in colons(u) : j <= i, Len(u))
                       ELSE <<>>
            shown == IF dsResult = <<>> THEN <<>> ELSE dsResult[1]
            expected == SelectSeq([i \in 1..Len(shown) |-> idOf(shown[i])],
                                  LAMBDA id : id # <<>>)
        IN  /\ (dsSaveCall.st # "inflight" /\ dsSaveCall'.st = "inflight") =>
                  /\ expected # <<>>
                  /\ dsSaveCall'.req.endpoint = "/save-tracks"
                  /\ dsSaveCall'.req.body = SomeBody([track_ids |-> expected])
                  /\ savedSongs' = savedSongs
            /\ (savedSongs' \ savedSongs # {}) =>
                  \E r \in WzResponses : ApiSettle(r).ok /\ SaveAllSettle(r)
            /\ \A r \in WzResponses :
                  (SaveAllSettle(r) /\ ~ApiSettle(r).ok) => savedSongs' = savedSongs
      ]_vars

\* A save-all request is in flight for a list of which one song yields an id
\* and one does not.
SaveAllOfMixedList ==
    /\ dsSaveCall.st = "inflight"
    /\ dsSaveCall.songs = << <<"a", ":", "b">>, <<"a", ":", "b", ":", "c">> >>
    /\ dsSaveCall.req.body = SomeBody([track_ids |-> << <<"c">> >>])

----------------------------------------------------------------------------
(* DiscoverPage, like/dismiss variant                                       *)

\* C37: in the like/dismiss variant of the discovery page no song index is
\* ever in both the liked and the dismissed set, and a POST /create-playlist
\* is issued only when a liked song of the displayed result has a URI.
LikedAndDismissedDisjoint ==
    [][ /\ liked' \cap dismissed' = {}
        /\ (dsPlaylistCall.st # "inflight" /\ dsPlaylistCall'.st = "inflight") =>
              /\ \E i \in liked : i < Len(dsResult[1]) /\ dsResult[1][i + 1] # <<>>
              /\ dsPlaylistCall'.req.endpoint = "/create-playlist"
        /\ (formPage = "likes" /\ dsResult # <<>> /\ dsPlaylistCall.st # "inflight"
              /\ \A i \in liked : i < Len(dsResult[1]) => dsResult[1][i + 1] = <<>>) =>
              dsPlaylistCall'.st # "inflight" ]_vars

\* A liked song has become a dismissed one next to a liked one, and creating
\* a playlist was refused for want of a URI.
ToggledAndRefused ==
    /\ liked = {0}
    /\ dismissed = {1}
    /\ dsError = "Waehle mindestens einen Song aus!"
    /\ dsPlaylistCall = NoCall

----------------------------------------------------------------------------
(* Loading indicators                                                       *)

\* C38: the source-list loading flag of the Daily Drive and Gym pages is
\* lowered after mount, whether the listing succeeds, fails or no token is
\* stored.
LoadingSourcesLowered ==
    (wzMounted /\ loadingSources) ~> ~(wzMounted /\ loadingSources)

----------------------------------------------------------------------------
(* GymPlaylistPage: the mount effect                                        *)

\* C39: on mount of the Gym page a failed settings fetch alone is tolerated
\* (the playlists are listed, no error is set, the selection stays); a failed
\* listing sets an error and lists nothing; the selection is replaced only by
\* stored settings that name at least one source playlist.
SettingsFailureTolerated ==
    [][ \A k \in 1..MaxWzCalls, r \in WzResponses, st \in GymSettings :
          (SourcesSettle(k, r, st) /\ wizard = "gym" /\ Alive(wzCalls[k])) =>
             LET listed == ApiSettle(r).ok /\ ApiSettle(r).value.json = "object" IN
             /\ (listed /\ ~st.present) =>
                   (wzSources' = SourceIds /\ wzError' = wzError
                      /\ selectedIds' = selectedIds)
             /\ ~listed => (wzError' # "" /\ wzSources' = wzSources
                              /\ selectedIds' = selectedIds)
             /\ (selectedIds' # selectedIds) =>
                   (listed /\ st.present /\ st.source_playlist_ids # {}
                      /\ selectedIds' = st.source_playlist_ids)
             /\ (listed /\ st.present /\ st.source_playlist_ids = {}) =>
                   selectedIds' = selectedIds ]_vars

\* The Gym page, opened a second time, has listed its playlists without an
\* error and without the flag the backend holds: the settings did not arrive.
GymListedWithoutSettings ==
    /\ wizard = "gym" /\ wzMounted /\ wzInst = 2 /\ ~loadingSources
    /\ wzSources = SourceIds
    /\ wzError = ""
    /\ selectedIds = {}
    /\ srvAutoRefresh /\ ~autoRefresh
    /\ wzCalls = <<>>

====
